---- MODULE Spec2Model ----
(***************************************************************************)
(* Cursor pagination engine of nestjs-typeorm-cursor-pagination.           *)
(*                                                                         *)
(* Strings are sequences of UTF-16 code units (naturals).  An optional     *)
(* value (a JavaScript value that may be undefined / null) is a sequence   *)
(* of length 0 or 1: <<>> is undefined, <<v>> is v.                        *)
(***************************************************************************)
EXTENDS Integers, Sequences, FiniteSets, TLC

\* ------------------------------------------------------------------ bounds
\* Number of distinct primary keys the table may hold.
NumIds == 3
\* Largest page size (first / last) a caller asks for.
MaxFirst == 2
\* Longest run of consecutive calls whose pages are recorded.
MaxPages == 4
\* Longest cursor value, in UTF-16 code units.
MaxCursorLen == 3
\* Largest number of leaf filters in one node of a filter expression.
MaxLeaves == 2
\* Largest number of leaf filters in the root node of a join expression.
MaxJoinLeaves == 2
\* Most cursor predicates left on a builder that is used again.
MaxLeftPredicates == 2
\* Largest number of leaves in the root node of a nested where expression.
MaxNestedLeaves == 2
\* Largest number of leaves filtering one field in one expression.
MaxSameFieldLeaves == 11
\* Longest search query, in UTF-16 code units.
MaxQueryLen == 4
\* Number of concurrent paginate calls.
NumCalls == 2

\* ------------------------------------------------------- program constants
\* paginate.ts: limit = first ?? last ?? 25
DefaultLimit == 25
\* paginate.ts: const multiColumnDelimiter = '|'   (code unit 124)
multiColumnDelimiter == 124

\* ---------------------------------------------------------------- strings
cA == 97
cB == 98

None == <<>>
Some(v) == <<v>>
IsSome(o) == Len(o) = 1
Val(o) == o[1]

\* Lexicographic comparison by code unit (SQLite BINARY collation, as used
\* by the string columns of the test database).
RECURSIVE StrLess(_, _)
StrLess(s, t) ==
  IF t = <<>> THEN FALSE
  ELSE IF s = <<>> THEN TRUE
  ELSE IF Head(s) # Head(t) THEN Head(s) < Head(t)
  ELSE StrLess(Tail(s), Tail(t))

\* String.prototype.split(delimiter): the list of pieces between delimiters.
RECURSIVE SplitFrom(_, _, _)
SplitFrom(s, d, cur) ==
  IF s = <<>> THEN <<cur>>
  ELSE IF Head(s) = d THEN <<cur>> \o SplitFrom(Tail(s), d, <<>>)
  ELSE SplitFrom(Tail(s), d, Append(cur, Head(s)))

Split(s, d) == SplitFrom(s, d, <<>>)

\* ------------------------------------------------------------ cursor codec
\* UTF-16 surrogate code units.
IsHighSurrogate(c) == c >= 55296 /\ c < 56320
IsLowSurrogate(c) == c >= 56320 /\ c < 57344

\* Buffer.from(string) : the UTF-8 bytes of a string of UTF-16 code units;
\* a surrogate that is not part of a pair is written as U+FFFD.
RECURSIVE Utf8Encode(_)
Utf8Encode(s) ==
  IF s = <<>> THEN <<>>
  ELSE LET c == Head(s) IN
       IF c < 128 THEN <<c>> \o Utf8Encode(Tail(s))
       ELSE IF c < 2048
       THEN <<192 + (c \div 64), 128 + (c % 64)>> \o Utf8Encode(Tail(s))
       ELSE IF IsHighSurrogate(c) /\ Len(s) >= 2 /\ IsLowSurrogate(s[2])
       THEN LET cp == 65536 + (c - 55296) * 1024 + (s[2] - 56320)
            IN <<240 + (cp \div 262144), 128 + ((cp \div 4096) % 64),
                 128 + ((cp \div 64) % 64), 128 + (cp % 64)>>
               \o Utf8Encode(Tail(Tail(s)))
       ELSE IF IsHighSurrogate(c) \/ IsLowSurrogate(c)
       THEN <<239, 191, 189>> \o Utf8Encode(Tail(s))
       ELSE <<224 + (c \div 4096), 128 + ((c \div 64) % 64), 128 + (c % 64)>>
            \o Utf8Encode(Tail(s))

\* A UTF-8 continuation byte.
IsCont(x) == x >= 128 /\ x < 192

\* buffer.toString('utf8') : well-formed sequences of one to four bytes
\* decode to their code units (a surrogate pair above U+FFFF); a byte that
\* starts no well-formed sequence decodes to U+FFFD.
RECURSIVE Utf8Decode(_)
Utf8Decode(b) ==
  IF b = <<>> THEN <<>>
  ELSE LET x == Head(b) IN
       IF x < 128 THEN <<x>> \o Utf8Decode(Tail(b))
       ELSE IF x >= 194 /\ x < 224 /\ Len(b) >= 2 /\ IsCont(b[2])
            THEN <<(x - 192) * 64 + (b[2] - 128)>> \o Utf8Decode(Tail(Tail(b)))
       ELSE IF /\ x >= 224 /\ x < 240 /\ Len(b) >= 3
               /\ IsCont(b[2]) /\ IsCont(b[3])
               /\ LET c == (x - 224) * 4096 + (b[2] - 128) * 64 + (b[3] - 128)
                  IN c >= 2048 /\ ~IsHighSurrogate(c) /\ ~IsLowSurrogate(c)
            THEN <<(x - 224) * 4096 + (b[2] - 128) * 64 + (b[3] - 128)>>
                 \o Utf8Decode(SubSeq(b, 4, Len(b)))
       ELSE IF /\ x >= 240 /\ x < 245 /\ Len(b) >= 4
               /\ IsCont(b[2]) /\ IsCont(b[3]) /\ IsCont(b[4])
               /\ LET cp == (x - 240) * 262144 + (b[2] - 128) * 4096
                              + (b[3] - 128) * 64 + (b[4] - 128)
                  IN cp >= 65536 /\ cp < 1114112
            THEN LET cp == (x - 240) * 262144 + (b[2] - 128) * 4096
                             + (b[3] - 128) * 64 + (b[4] - 128)
                 IN <<55296 + ((cp - 65536) \div 1024),
                      56320 + ((cp - 65536) % 1024)>>
                    \o Utf8Decode(SubSeq(b, 5, Len(b)))
       ELSE <<65533>> \o Utf8Decode(Tail(b))

\* Base64 text is a sequence of symbol indices 0..63; 64 is the pad '='.
Pad == 64

RECURSIVE Base64Encode(_)
Base64Encode(b) ==
  IF b = <<>> THEN <<>>
  ELSE IF Len(b) = 1 THEN
    <<b[1] \div 4, (b[1] % 4) * 16, Pad, Pad>>
  ELSE IF Len(b) = 2 THEN
    <<b[1] \div 4, (b[1] % 4) * 16 + (b[2] \div 16), (b[2] % 16) * 4, Pad>>
  ELSE
    <<b[1] \div 4, (b[1] % 4) * 16 + (b[2] \div 16),
      (b[2] % 16) * 4 + (b[3] \div 64), b[3] % 64>>
    \o Base64Encode(SubSeq(b, 4, Len(b)))

\* Buffer.from(text, 'base64') stops at the first pad and drops a dangling
\* symbol.
RECURSIVE Base64Decode(_)
Base64Decode(t) ==
  IF Len(t) < 2 \/ t[1] = Pad \/ t[2] = Pad THEN <<>>
  ELSE LET b1 == t[1] * 4 + (t[2] \div 16) IN
       IF Len(t) < 3 \/ t[3] = Pad THEN <<b1>>
       ELSE LET b2 == (t[2] % 16) * 16 + (t[3] \div 4) IN
            IF Len(t) < 4 \/ t[4] = Pad THEN <<b1, b2>>
            ELSE <<b1, b2, (t[3] % 4) * 64 + t[4]>>
                 \o Base64Decode(SubSeq(t, 5, Len(t)))

\* Cursor.encode(): Buffer.from(this.cursor).toString('base64')
encode(value) == Base64Encode(Utf8Encode(value))

\* Cursor.decode(): Buffer.from(this.cursor, 'base64').toString('utf8')
decode(cursor) == Utf8Decode(Base64Decode(cursor))


\* ------------------------------------------------------------- data model
\* Identifiers 'a', 'b', 'c', ... (NodeEntity.id is a string).
IdStr(i) == <<96 + i>>
Ids == {IdStr(i) : i \in 1..NumIds}

\* Values of the non-unique string column TestProduct.name: 'a' and 'a|'.
Names == {<<cA>>, <<cA, multiColumnDelimiter>>}

\* Values of TestProduct.category, the column the caller filters on.
Categories == {"Books", "Electronics"}

\* Seeded rows alternate between the categories.
CategoryOf(i) == IF i % 2 = 1 THEN "Books" ELSE "Electronics"

\* The tables the model starts from: any subset of the ids, any names.
Tables ==
  {t \in SUBSET [id : Ids, name : Names, category : Categories] :
     /\ \A r1, r2 \in t : r1.id = r2.id => r1 = r2
     /\ \A r \in t : \E i \in 1..NumIds :
                       r.id = IdStr(i) /\ r.category = CategoryOf(i)}

\* cursorColumn arguments, as their dot-separated segments: 'id' (the
\* default of paginate's third parameter), 'TestProduct.name' and ''.
DefaultCursorColumn == <<"id">>
CursorColumns == {DefaultCursorColumn, <<"TestProduct", "name">>, <<"">>}

\* The properties of the TestProduct entity the queries can name.
EntityColumns == {"id", "name", "category"}

\* paginate.ts 54-57: the segment after the first dot, or the whole name.
ColumnIdOf(cc) == IF Len(cc) > 1 THEN cc[2] ELSE cc[1]

\* JavaScript truthiness of an optional number / optional string.
TruthyNum(o) == IsSome(o) /\ Val(o) # 0
TruthyStr(o) == IsSome(o) /\ Val(o) # <<>>

\* ------------------------------------------------ query builder (TypeORM)
\* A WHERE entry.  kind "eq": column = primary.  kind "bracket":
\*   (column op primary) OR (column = primary AND id op secondary),
\* the second disjunct present only when column is not 'id'.
EqWhere(col, v) ==
  [kind |-> "eq", column |-> col, op |-> "Equal",
   primary |-> Some(v), secondary |-> None]

Bracket(col, op, p, s) ==
  [kind |-> "bracket", column |-> col, op |-> op,
   primary |-> p, secondary |-> s]

\* productRepo.createQueryBuilder(...) followed by the caller's own where().
NewQuery(f) ==
  [wheres |-> IF IsSome(f) THEN <<EqWhere("category", Val(f))>> ELSE <<>>,
   orderBys |-> <<>>,
   take |-> None]

\* FindOperator LessThan / MoreThan against a bound; a null bound compares
\* as SQL NULL and selects nothing.
Compare(op, v, bound) ==
  IF ~IsSome(bound) THEN FALSE
  ELSE IF op = "MoreThan" THEN StrLess(Val(bound), v)
  ELSE StrLess(v, Val(bound))

Matches(w, r) ==
  IF w.kind = "eq" THEN r[w.column] = Val(w.primary)
  ELSE \/ Compare(w.op, r[w.column], w.primary)
       \/ /\ w.column # "id"
          /\ IsSome(w.primary)
          /\ r[w.column] = Val(w.primary)
          /\ Compare(w.op, r.id, w.secondary)

\* Variant of Selected that finds nothing when the bound of a condition is
\* the value of no row.
SelectedWhenBoundExists(q, table) ==
  IF \E k \in 1..Len(q.wheres) :
       /\ q.wheres[k].kind = "bracket"
       /\ IsSome(q.wheres[k].primary)
       /\ \A r \in table : r[q.wheres[k].column] # Val(q.wheres[k].primary)
  THEN {}
  ELSE {r \in table : \A k \in 1..Len(q.wheres) : Matches(q.wheres[k], r)}

Selected(q, table) ==
  {r \in table : \A k \in 1..Len(q.wheres) : Matches(q.wheres[k], r)}

\* r1 sorts strictly before r2 under the ORDER BY list.
RECURSIVE RowBefore(_, _, _)
RowBefore(r1, r2, obs) ==
  IF obs = <<>> THEN FALSE
  ELSE LET o == Head(obs)
           v1 == r1[o.column]
           v2 == r2[o.column]
       IN IF v1 = v2 THEN RowBefore(r1, r2, Tail(obs))
          ELSE IF o.order = "ASC" THEN StrLess(v1, v2) ELSE StrLess(v2, v1)

RECURSIVE Sorted(_, _)
Sorted(rows, obs) ==
  IF rows = {} THEN <<>>
  ELSE LET m == CHOOSE x \in rows :
                  \A y \in rows \ {x} : ~RowBefore(y, x, obs)
       IN <<m>> \o Sorted(rows \ {m}, obs)

Prefix(s, n) == SubSeq(s, 1, IF n < Len(s) THEN n ELSE Len(s))

\* SelectQueryBuilder.getMany(): WHERE, ORDER BY, LIMIT.
getMany(q, table) ==
  LET all == Sorted(Selected(q, table), q.orderBys)
  IN IF IsSome(q.take) THEN Prefix(all, Val(q.take)) ELSE all

\* SelectQueryBuilder.getCount()
getCount(q, table) == Cardinality(Selected(q, table))

\* query.where(x) replaces the conditions, query.andWhere(x) appends one.
where(q, w) == [q EXCEPT !.wheres = <<w>>]

\* Variant of andWhere that drops the conditions already present.
andWhereReplacing(q, w) == [q EXCEPT !.wheres = <<w>>]
andWhere(q, w) == [q EXCEPT !.wheres = Append(@, w)]

Reverse(s) == [k \in 1..Len(s) |-> s[Len(s) + 1 - k]]


\* --------------------------------------------------------- paginate.ts
\* PaginationArgs: first, last (optional numbers), after, before (optional
\* cursors), reverse (undefined behaves as false).
MakeArgs(f, l, a, b, r) ==
  [first |-> f, last |-> l, after |-> a, before |-> b, reverse |-> r]

\* paginate.ts 59-77: the cursor that is decoded, if any.
CursorOf(a) ==
  IF TruthyNum(a.first)
  THEN (IF TruthyStr(a.after) THEN a.after ELSE None)
  ELSE IF TruthyNum(a.last)
  THEN (IF TruthyStr(a.before) THEN a.before ELSE None)
  ELSE None

\* Variant of OrderOf that ignores the reverse flag.
OrderOfIgnoringReverse(a) ==
  IF TruthyNum(a.first) THEN "ASC"
  ELSE IF TruthyNum(a.last) THEN "DESC"
  ELSE "ASC"

\* paginate.ts 60-77: physical sort direction of the window query.
OrderOf(a) ==
  IF TruthyNum(a.first) THEN (IF a.reverse THEN "DESC" ELSE "ASC")
  ELSE IF TruthyNum(a.last) THEN (IF a.reverse THEN "ASC" ELSE "DESC")
  ELSE (IF a.reverse THEN "DESC" ELSE "ASC")

\* paginate.ts 61-77: limit = first ?? last ?? 25, then first / last.
LimitOf(a) ==
  IF TruthyNum(a.first) THEN Val(a.first)
  ELSE IF TruthyNum(a.last) THEN Val(a.last)
  ELSE IF IsSome(a.first) THEN Val(a.first)
  ELSE IF IsSome(a.last) THEN Val(a.last)
  ELSE DefaultLimit

\* Variant of getCursorWhereClause with the comparison operators of the two
\* directions exchanged.
getCursorWhereClauseWrongOperator(q, cursor, columnId, a) ==
  LET offsetId == decode(cursor)
      parts == Split(offsetId, multiColumnDelimiter)
      primaryColumnOffset ==
        IF columnId = "id" THEN Some(offsetId) ELSE Some(parts[1])
      secondaryColumnOffset ==
        IF columnId = "id" THEN None
        ELSE IF Len(parts) >= 2 THEN Some(parts[2]) ELSE None
      forward == TruthyNum(a.first) /\ TruthyStr(a.after)
      backward == TruthyNum(a.last) /\ TruthyStr(a.before)
      findOperator ==
        IF forward THEN (IF a.reverse THEN "MoreThan" ELSE "LessThan")
        ELSE (IF a.reverse THEN "LessThan" ELSE "MoreThan")
      whereExpression ==
        Bracket(columnId, findOperator,
                primaryColumnOffset, secondaryColumnOffset)
  IN IF ~forward /\ ~backward
     THEN [threw |-> TRUE, query |-> q]
     ELSE [threw |-> FALSE,
           query |-> IF Len(q.wheres) > 0 THEN andWhere(q, whereExpression)
                     ELSE where(q, whereExpression)]

\* paginate.ts 127-179.  Returns the query with the cursor predicate added,
\* and whether 'Invalid cursor pagination arguments' was thrown.
getCursorWhereClause(q, cursor, columnId, a) ==
  LET offsetId == decode(cursor)
      parts == Split(offsetId, multiColumnDelimiter)
      primaryColumnOffset ==
        IF columnId = "id" THEN Some(offsetId) ELSE Some(parts[1])
      secondaryColumnOffset ==
        IF columnId = "id" THEN None
        ELSE IF Len(parts) >= 2 THEN Some(parts[2]) ELSE None
      forward == TruthyNum(a.first) /\ TruthyStr(a.after)
      backward == TruthyNum(a.last) /\ TruthyStr(a.before)
      findOperator ==
        IF forward THEN (IF a.reverse THEN "LessThan" ELSE "MoreThan")
        ELSE (IF a.reverse THEN "MoreThan" ELSE "LessThan")
      whereExpression ==
        Bracket(columnId, findOperator,
                primaryColumnOffset, secondaryColumnOffset)
  IN IF ~forward /\ ~backward
     THEN [threw |-> TRUE, query |-> q]
     ELSE [threw |-> FALSE,
           query |-> IF Len(q.wheres) > 0 THEN andWhere(q, whereExpression)
                     ELSE where(q, whereExpression)]

\* paginate.ts 78-91: ordering, tiebreaker, cursor predicate, limit.
BuildWindowQuery(q, a, cc) ==
  LET columnId == ColumnIdOf(cc)
      order == OrderOf(a)
      q1 == [q EXCEPT !.orderBys = <<[column |-> columnId, order |-> order]>>]
      q2 == IF columnId # "id"
            THEN [q1 EXCEPT !.orderBys =
                    Append(@, [column |-> "id", order |-> order])]
            ELSE q1
      cursor == CursorOf(a)
      r3 == IF IsSome(cursor)
            THEN getCursorWhereClause(q2, Val(cursor), columnId, a)
            ELSE [threw |-> FALSE, query |-> q2]
  IN [threw |-> r3.threw,
      query |-> [r3.query EXCEPT !.take = Some(LimitOf(a))]]

\* Variant of BeforeQuery that does not flip its operator for reverse.
BeforeQueryIgnoringReverse(res, tcq, columnId, a) ==
  LET primaryStartCursorId ==
        IF Len(res) > 0 THEN Some(res[1][columnId]) ELSE None
      secondaryStartCursorId ==
        IF Len(res) > 0 /\ columnId # "id" THEN Some(res[1].id) ELSE None
      findOperatorBefore == "LessThan"
      whereExpressionBefore ==
        Bracket(columnId, findOperatorBefore,
                primaryStartCursorId, secondaryStartCursorId)
  IN IF Len(tcq.wheres) > 0 THEN andWhere(tcq, whereExpressionBefore)
     ELSE where(tcq, whereExpressionBefore)

\* paginate.ts 188-256: the before-count query built from the window.
BeforeQuery(res, tcq, columnId, a) ==
  LET primaryStartCursorId ==
        IF Len(res) > 0 THEN Some(res[1][columnId]) ELSE None
      secondaryStartCursorId ==
        IF Len(res) > 0 /\ columnId # "id" THEN Some(res[1].id) ELSE None
      findOperatorBefore == IF a.reverse THEN "MoreThan" ELSE "LessThan"
      whereExpressionBefore ==
        Bracket(columnId, findOperatorBefore,
                primaryStartCursorId, secondaryStartCursorId)
  IN IF Len(tcq.wheres) > 0 THEN andWhere(tcq, whereExpressionBefore)
     ELSE where(tcq, whereExpressionBefore)

\* Variant of AfterQuery whose bound for an empty window is the empty
\* string instead of null.
AfterQueryEmptyStringBound(res, tcq, columnId, a) ==
  LET primaryEndCursorId ==
        IF Len(res) > 0 THEN Some(res[Len(res)][columnId]) ELSE Some(<<>>)
      secondaryEndCursorId ==
        IF Len(res) > 0 /\ columnId # "id"
        THEN Some(res[Len(res)].id) ELSE None
      findOperatorAfter == IF a.reverse THEN "LessThan" ELSE "MoreThan"
      whereExpressionAfter ==
        Bracket(columnId, findOperatorAfter,
                primaryEndCursorId, secondaryEndCursorId)
  IN IF Len(tcq.wheres) > 0 THEN andWhere(tcq, whereExpressionAfter)
     ELSE where(tcq, whereExpressionAfter)

\* paginate.ts 188-256: the after-count query built from the window.
AfterQuery(res, tcq, columnId, a) ==
  LET primaryEndCursorId ==
        IF Len(res) > 0 THEN Some(res[Len(res)][columnId]) ELSE None
      secondaryEndCursorId ==
        IF Len(res) > 0 /\ columnId # "id"
        THEN Some(res[Len(res)].id) ELSE None
      findOperatorAfter == IF a.reverse THEN "LessThan" ELSE "MoreThan"
      whereExpressionAfter ==
        Bracket(columnId, findOperatorAfter,
                primaryEndCursorId, secondaryEndCursorId)
  IN IF Len(tcq.wheres) > 0 THEN andWhere(tcq, whereExpressionAfter)
     ELSE where(tcq, whereExpressionAfter)

\* Variant of getCountQueries that clones afterQuery from beforeQuery after
\* the latter received its predicate.
getCountQueriesChained(res, tcq, columnId, a) ==
  LET bq == BeforeQuery(res, tcq, columnId, a)
  IN [beforeQuery |-> bq, afterQuery |-> AfterQuery(res, bq, columnId, a)]

\* paginate.ts 188-256: getCounts clones totalCountQuery twice and adds one
\* predicate to each clone.
getCountQueries(res, tcq, columnId, a) ==
  [beforeQuery |-> BeforeQuery(res, tcq, columnId, a),
   afterQuery |-> AfterQuery(res, tcq, columnId, a)]

\* paginate.ts 267-287: one edge per row, with its encoded cursor.
getEdges(res, columnId) ==
  [k \in 1..Len(res) |->
     [node |-> res[k],
      cursor |-> IF columnId # "id"
                 THEN encode(res[k][columnId] \o <<multiColumnDelimiter>>
                             \o res[k].id)
                 ELSE encode(res[k][columnId])]]

\* paginate.ts 289-301: the four fields getPageInfo assigns; countBefore,
\* countAfter and totalCount of PageInfo are never assigned.
getPageInfo(edges, cb, ca) ==
  [startCursor |-> IF Len(edges) > 0 THEN Some(edges[1].cursor) ELSE None,
   endCursor |-> IF Len(edges) > 0 THEN Some(edges[Len(edges)].cursor)
                 ELSE None,
   hasNextPage |-> ca > 0,
   hasPreviousPage |-> cb > 0,
   countBefore |-> None,
   countAfter |-> None,
   totalCount |-> None]

\* paginate.ts 106-113: the connection returned to the caller.
Connection(res, columnId, cb, ca) ==
  LET edges == getEdges(res, columnId)
  IN [edges |-> edges,
      pageInfo |-> getPageInfo(edges, cb, ca),
      totalCount |-> ca + cb + Len(edges)]


\* ------------------------------------------------------------------- state
VARIABLES
  db,               \* rows of the table
  cursorColumn,     \* third argument of paginate, fixed for the session
  filter,           \* the caller's own WHERE (category = ...), if any
  pc,               \* where the running paginate call is suspended
  args,             \* paginationArgs of the running / last call
  query,            \* the caller-supplied builder, mutated by paginate
  totalCountQuery,  \* query.clone() taken on entry
  beforeQuery,      \* getCounts: clone carrying the before predicate
  afterQuery,       \* getCounts: clone carrying the after predicate
  result,           \* rows of the window, in presentation order
  countBefore,      \* getCounts result
  countAfter,       \* getCounts result
  queriesRun,       \* database round trips made by the running / last call
  outcome,          \* "none", "pending", "returned", "threw", "queryFailed"
  pages,            \* history: the current run of consecutive pages
  touched,          \* history: <<id, kind of write>> since that run began
  builders,         \* concurrent callers: the query builder objects
  calls,            \* concurrent callers: each paginate call's locals
  cursorCall,       \* a Cursor object being encoded and decoded again
  whereBuilder,     \* a WhereBuilder object and the calls it made on qb
  joinBuilder,      \* a JoinBuilder object and the calls it made on qb
  searchCall        \* a call of buildFiltersExpressionFromQueryString

vars ==
  <<db, cursorColumn, filter, pc, args, query, totalCountQuery, beforeQuery,
    afterQuery, result, countBefore, countAfter, queriesRun, outcome, pages,
    touched, builders, calls, cursorCall, whereBuilder, joinBuilder,
    searchCall>>

\* The state of the library's classes other than paginate.
libVars == <<cursorCall, whereBuilder, joinBuilder, searchCall>>

NoArgs == MakeArgs(None, None, None, None, FALSE)

Filters == {None, Some("Books")}

\* No Cursor object constructed yet.
NoCursorCall ==
  [pc |-> "none", value |-> <<>>, columnId |-> "id", text |-> <<>>,
   back |-> <<>>]

\* No filter expression: an operator and neither leaves nor children.
NoExpression == [operator |-> "and", filters |-> <<>>, childExpressions |-> <<>>]

\* No WhereBuilder constructed yet.  params is the list of assignments
\* this.params[name] = value in the order they are made; fragments is the
\* list of buildFilter's results with the leaf each came from; whereCalls
\* is the list of qb.where(sql, params) calls.
NoWhereBuilder ==
  [pc |-> "none", betweenDeclared |-> TRUE, filtersExpression |-> NoExpression,
   params |-> <<>>, paramsCount |-> 0, fragments |-> <<>>,
   whereCalls |-> <<>>, error |-> ""]

\* No JoinBuilder constructed yet.  joinCalls is the list of
\* qb.leftJoinAndSelect(relationField, alias) calls.
NoJoinBuilder ==
  [pc |-> "none", filtersExpression |-> NoExpression, joinedEntities |-> {},
   joinCalls |-> <<>>, error |-> ""]

\* No call of buildFiltersExpressionFromQueryString yet.
NoSearchCall ==
  [pc |-> "none", query |-> <<>>, entityName |-> <<>>, fieldNames |-> <<>>,
   result |-> NoExpression]

\* Concurrent requests, each running one paginate call.
Callers == 1..NumCalls

\* A paginate call that has not been entered yet.
IdleCall ==
  [pc |-> "idle", builder |-> 0, args |-> NoArgs,
   query |-> NewQuery(None), totalCountQuery |-> NewQuery(None),
   beforeQuery |-> NewQuery(None), afterQuery |-> NewQuery(None),
   result |-> <<>>, countBefore |-> 0, countAfter |-> 0, conn |-> None]

Init ==
  /\ db \in Tables
  /\ cursorColumn \in CursorColumns
  /\ filter \in Filters
  /\ pc = "idle"
  /\ args = NoArgs
  /\ query = NewQuery(filter)
  /\ totalCountQuery = NewQuery(filter)
  /\ beforeQuery = NewQuery(filter)
  /\ afterQuery = NewQuery(filter)
  /\ result = <<>>
  /\ countBefore = 0
  /\ countAfter = 0
  /\ queriesRun = 0
  /\ outcome = "none"
  /\ pages = <<>>
  /\ touched = {}
  /\ builders = [c \in Callers |-> NewQuery(filter)]
  /\ calls = [c \in Callers |-> IdleCall]
  /\ cursorCall = NoCursorCall
  /\ whereBuilder = NoWhereBuilder
  /\ joinBuilder = NoJoinBuilder
  /\ searchCall = NoSearchCall

\* Cursors a caller holds: those of the page it received last.
LastPage == pages[Len(pages)]
HeldEndCursor ==
  IF Len(pages) > 0 THEN LastPage.conn.pageInfo.endCursor ELSE None
HeldStartCursor ==
  IF Len(pages) > 0 THEN LastPage.conn.pageInfo.startCursor ELSE None

Counts == {None} \cup {Some(n) : n \in 1..MaxFirst}

\* The argument shapes callers use (PaginationArgs, part_012 197-239):
\* a forward window, a backward window, both sizes at once, and a cursor
\* given without the size it pairs with.  paginate is called on a fresh
\* builder and reads nothing of the calls before it, so a call without a
\* cursor does the same from every state of one table: it is listed where
\* no page is held, and a caller that holds a page passes a cursor of it.
ArgChoices ==
  LET shapes ==
        {MakeArgs(f, None, a, None, r) :
           f \in Counts, a \in {None, HeldEndCursor}, r \in BOOLEAN}
        \cup {MakeArgs(None, l, None, b, r) :
                l \in Counts, b \in {None, HeldStartCursor}, r \in BOOLEAN}
        \cup {MakeArgs(n, n, a, b, r) :
                n \in Counts \ {None}, a \in {None, HeldEndCursor},
                b \in {None, HeldStartCursor}, r \in BOOLEAN}
        \cup {MakeArgs(f, None, None, HeldStartCursor, r) :
                f \in Counts, r \in BOOLEAN}
        \cup {MakeArgs(None, l, HeldEndCursor, None, r) :
                l \in Counts, r \in BOOLEAN}
  IN IF pages = <<>> THEN shapes
     ELSE {a \in shapes : IsSome(a.after) \/ IsSome(a.before)}

\* a continues the run of pages: same window size and direction, cursor
\* taken from the page before.
ContinuesForward(p, a) ==
  /\ IsSome(a.first) /\ a.first = p.args.first
  /\ a.last = None /\ p.args.last = None
  /\ a.before = None /\ p.args.before = None
  /\ IsSome(a.after) /\ a.after = p.conn.pageInfo.endCursor
  /\ a.reverse = p.args.reverse

ContinuesBackward(p, a) ==
  /\ IsSome(a.last) /\ a.last = p.args.last
  /\ a.first = None /\ p.args.first = None
  /\ a.after = None /\ p.args.after = None
  /\ IsSome(a.before) /\ a.before = p.conn.pageInfo.startCursor
  /\ a.reverse = p.args.reverse

Continues(a) ==
  /\ Len(pages) > 0
  /\ Len(pages) < MaxPages
  /\ ContinuesForward(LastPage, a) \/ ContinuesBackward(LastPage, a)

\* ----------------------------------------------------------------- actions
\* paginate.ts 48-93: the synchronous part of paginate up to the first
\* await (query.getMany()), called on a fresh builder.
PaginateWith(choices) ==
  /\ pc = "idle"
  /\ \E a \in choices :
       LET q0 == NewQuery(filter)
           b == BuildWindowQuery(q0, a, cursorColumn)
       IN /\ args' = a
          /\ totalCountQuery' = q0
          /\ query' = b.query
          /\ queriesRun' = 0
          /\ IF b.threw
             THEN /\ pc' = "idle"
                  /\ outcome' = "threw"
                  /\ pages' = <<>>
                  /\ touched' = {}
             ELSE /\ pc' = "getMany"
                  /\ outcome' = "pending"
                  /\ pages' = IF Continues(a) THEN pages ELSE <<>>
                  /\ touched' = IF Continues(a) THEN touched ELSE {}
          /\ beforeQuery' = q0
          /\ afterQuery' = q0
          /\ result' = <<>>
          /\ countBefore' = 0
          /\ countAfter' = 0
  /\ UNCHANGED <<libVars, builders, calls, db, cursorColumn, filter>>

\* A caller passing any combination of arguments.
Paginate == PaginateWith(ArgChoices)

\* paginate.ts 93-96 and 188-258: the window rows arrive; backward windows
\* are reversed; the two count queries are built and the first is issued.
GetMany ==
  /\ pc = "getMany"
  /\ ColumnIdOf(cursorColumn) \in EntityColumns
  /\ LET rows == getMany(query, db)
         res == IF TruthyNum(args.last) THEN Reverse(rows) ELSE rows
         columnId == ColumnIdOf(cursorColumn)
         counts == getCountQueries(res, totalCountQuery, columnId, args)
     IN /\ result' = res
        /\ beforeQuery' = counts.beforeQuery
        /\ afterQuery' = counts.afterQuery
  /\ queriesRun' = queriesRun + 1
  /\ pc' = "countBefore"
  /\ UNCHANGED <<libVars, builders, calls, db, cursorColumn, filter, args, query,
                 totalCountQuery,
                 countBefore, countAfter, outcome, pages, touched>>

\* paginate.ts 79-93 and 217-258 with a column name that is no property of
\* the entity ('' for instance): paginate itself checks nothing, the name
\* reaches the query builder, and the promise rejects with the builder's or
\* the database's error: at the window fetch, or, when the builder drops
\* the unknown name of orderBy({ [cursorColumn]: order }), at the first
\* count after the window was fetched.
GetManyUnknownColumn ==
  /\ pc = "getMany"
  /\ ColumnIdOf(cursorColumn) \notin EntityColumns
  /\ \/ /\ pc' = "idle"
        /\ outcome' = "queryFailed"
        /\ UNCHANGED <<result, queriesRun>>
     \/ /\ LET known == SelectSeq(query.orderBys,
                                  LAMBDA o : o.column \in EntityColumns)
               rows == getMany([query EXCEPT !.orderBys = known], db)
           IN result' = IF TruthyNum(args.last) THEN Reverse(rows) ELSE rows
        /\ queriesRun' = queriesRun + 1
        /\ pc' = "countBefore"
        /\ UNCHANGED outcome
  /\ UNCHANGED <<libVars, builders, calls, db, cursorColumn, filter, args, query,
                 totalCountQuery,
                 beforeQuery, afterQuery, countBefore, countAfter, pages,
                 touched>>

\* paginate.ts 217-258 with such a column name: where({[columnId]: ...})
\* cannot be resolved and the first count rejects.
GetCountBeforeUnknownColumn ==
  /\ pc = "countBefore"
  /\ ColumnIdOf(cursorColumn) \notin EntityColumns
  /\ pc' = "idle"
  /\ outcome' = "queryFailed"
  /\ UNCHANGED <<libVars, builders, calls, db, cursorColumn, filter, args, query,
                 totalCountQuery,
                 beforeQuery, afterQuery, result, countBefore, countAfter,
                 queriesRun, pages, touched>>

\* paginate.ts 258: beforeQuery.getCount() completes.
GetCountBefore ==
  /\ pc = "countBefore"
  /\ ColumnIdOf(cursorColumn) \in EntityColumns
  /\ countBefore' = getCount(beforeQuery, db)
  /\ queriesRun' = queriesRun + 1
  /\ pc' = "countAfter"
  /\ UNCHANGED <<libVars, builders, calls, db, cursorColumn, filter, args, query,
                 totalCountQuery,
                 beforeQuery, afterQuery, result, countAfter, outcome, pages,
                 touched>>

\* paginate.ts 259-264 and 106-113: afterQuery.getCount() completes, the
\* edges and page info are assembled and the connection is returned.
GetCountAfter ==
  /\ pc = "countAfter"
  /\ LET ca == getCount(afterQuery, db)
         conn == Connection(result, ColumnIdOf(cursorColumn), countBefore, ca)
     IN /\ countAfter' = ca
        /\ pages' = Append(pages,
                      [args |-> args, conn |-> conn,
                       countBefore |-> countBefore, countAfter |-> ca])
  /\ queriesRun' = queriesRun + 1
  /\ outcome' = "returned"
  /\ pc' = "idle"
  /\ UNCHANGED <<libVars, builders, calls, db, cursorColumn, filter, args, query,
                 totalCountQuery,
                 beforeQuery, afterQuery, result, countBefore, touched>>

Next ==
  \/ Paginate
  \/ GetMany
  \/ GetManyUnknownColumn
  \/ GetCountBefore
  \/ GetCountBeforeUnknownColumn
  \/ GetCountAfter

Spec == Init /\ [][Next]_vars

TypeOK ==
  /\ pc \in {"idle", "getMany", "countBefore", "countAfter"}
  /\ outcome \in {"none", "pending", "returned", "threw", "queryFailed"}
  /\ Len(pages) <= MaxPages
  /\ queriesRun \in 0..3


\* ------------------------------------------------------ reference notions
\* Rows that satisfy the caller's own filter.
MatchingRows == {r \in db : IsSome(filter) => r.category = Val(filter)}

\* (sortCol, id) of r1 strictly below that of r2.
KeyLess(r1, r2, col) ==
  \/ StrLess(r1[col], r2[col])
  \/ r1[col] = r2[col] /\ StrLess(r1.id, r2.id)

\* The number of rows of S whose key is strictly below that of r.
Rank(r, S, col) == Cardinality({x \in S : KeyLess(x, r, col)})

\* The rows of S listed by ascending (sortCol, id).
Ascending(S, col) ==
  [k \in 1..Cardinality(S) |-> CHOOSE r \in S : Rank(r, S, col) = k - 1]

\* The canonical presentation order of the matching rows.
Presentation(col, rev) ==
  IF rev THEN Reverse(Ascending(MatchingRows, col))
  ELSE Ascending(MatchingRows, col)

\* Position of row r in sequence s (0 when absent).
IndexOf(r, s) ==
  IF \E k \in 1..Len(s) : s[k] = r
  THEN CHOOSE k \in 1..Len(s) : s[k] = r
  ELSE 0

Nodes(conn) == [k \in 1..Len(conn.edges) |-> conn.edges[k].node]

RECURSIVE ConcatNodes(_)
ConcatNodes(ps) ==
  IF ps = <<>> THEN <<>>
  ELSE Nodes(Head(ps).conn) \o ConcatNodes(Tail(ps))

Returned == pc = "idle" /\ outcome = "returned"

SortColumn == ColumnIdOf(cursorColumn)

\* The recorded pages are a forward traversal from the start: first: n,
\* then first: n with after = the previous endCursor.
ForwardTraversal ==
  /\ Returned
  /\ IsSome(pages[1].args.first)
  /\ pages[1].args.last = None
  /\ pages[1].args.after = None
  /\ pages[1].args.before = None

\* The recorded pages are a backward traversal from the end.
BackwardTraversal ==
  /\ Returned
  /\ IsSome(pages[1].args.last)
  /\ pages[1].args.first = None
  /\ pages[1].args.after = None
  /\ pages[1].args.before = None

\* The traversal stopped at the first page reporting hasNextPage = false.
StoppedAtEnd ==
  /\ ~LastPage.conn.pageInfo.hasNextPage
  /\ \A k \in 1..(Len(pages) - 1) : pages[k].conn.pageInfo.hasNextPage

\* ------------------------------------------------------------------ claims
\* C1: sorted by the unique id column, ascending, the pages of a forward
\* traversal (first: n, then after = previous endCursor) concatenate to a
\* prefix of the matching rows in ascending id order, and to all of them
\* once a page reports hasNextPage = false: every row once, none twice.
C1_ForwardTraversalIsExact ==
  (ForwardTraversal /\ SortColumn = "id" /\ ~pages[1].args.reverse) =>
    LET got == ConcatNodes(pages)
        all == Ascending(MatchingRows, "id")
    IN /\ Len(got) <= Len(all)
       /\ got = SubSeq(all, 1, Len(got))
       /\ StoppedAtEnd => got = all

C1_Witness ==
  /\ ForwardTraversal /\ SortColumn = "id" /\ ~pages[1].args.reverse
  /\ StoppedAtEnd
  /\ Len(pages) >= 3
  /\ Cardinality(MatchingRows) >= 3
  /\ Len(ConcatNodes(pages)) = Cardinality(MatchingRows)


\* Some sort value is shared by at least two matching rows.
DuplicateSortValues ==
  \E r1, r2 \in MatchingRows : r1 # r2 /\ r1[SortColumn] = r2[SortColumn]

\* C2: sorted by a non-unique column with rows sharing a sort value, a
\* forward traversal never returns a row twice and never skips a row: its
\* pages concatenate to a prefix of the (sortCol, id) order, and to the
\* whole of it once hasNextPage = false.
C2_StableUnderDuplicates ==
  (ForwardTraversal /\ SortColumn # "id" /\ DuplicateSortValues) =>
    LET got == ConcatNodes(pages)
        all == Presentation(SortColumn, pages[1].args.reverse)
    IN /\ Len(got) <= Len(all)
       /\ got = SubSeq(all, 1, Len(got))
       /\ StoppedAtEnd => got = all


\* The row next to r in sequence s, d = 1 for the following row and d = -1
\* for the preceding one, as an optional value.
Neighbour(r, s, d) ==
  LET k == IndexOf(r, s) + d
  IN IF IndexOf(r, s) # 0 /\ k >= 1 /\ k <= Len(s) THEN Some(s[k]) ELSE None

FirstNode(conn) ==
  IF Len(conn.edges) > 0 THEN Some(conn.edges[1].node) ELSE None

LastNode(conn) ==
  IF Len(conn.edges) > 0 THEN Some(conn.edges[Len(conn.edges)].node)
  ELSE None

\* Page k + 1 was requested with first: n, after = endCursor of page k.
ForwardStep(k) ==
  /\ k >= 1 /\ k < Len(pages)
  /\ ContinuesForward(pages[k], pages[k + 1].args)

\* Page k + 1 was requested with last: n, before = startCursor of page k.
BackwardStep(k) ==
  /\ k >= 1 /\ k < Len(pages)
  /\ ContinuesBackward(pages[k], pages[k + 1].args)

\* C3: a page requested with after = endCursor of the previous page starts
\* at the row that follows the previous page's last row, and a page
\* requested with before = startCursor of the previous page ends at the
\* row that precedes the previous page's first row.
C3_CursorContinuity ==
  Returned =>
    \A k \in 1..(Len(pages) - 1) :
      LET order == Presentation(SortColumn, pages[k].args.reverse)
      IN /\ ForwardStep(k) =>
              FirstNode(pages[k + 1].conn) =
                Neighbour(Val(LastNode(pages[k].conn)), order, 1)
         /\ BackwardStep(k) =>
              LastNode(pages[k + 1].conn) =
                Neighbour(Val(FirstNode(pages[k].conn)), order, -1)


\* C4: every returned connection carries countBefore, countAfter and
\* totalCount on pageInfo, with
\* pageInfo.totalCount = pageInfo.countBefore + pageInfo.countAfter
\*                       + edges.length.
C4_PageInfoCountsSum ==
  Returned =>
    LET conn == LastPage.conn
        pi == conn.pageInfo
    IN /\ IsSome(pi.totalCount) /\ IsSome(pi.countBefore)
       /\ IsSome(pi.countAfter)
       /\ Val(pi.totalCount) =
            Val(pi.countBefore) + Val(pi.countAfter) + Len(conn.edges)

\* Exactly one of first / last is given.
OneMode(a) == IsSome(a.first) # IsSome(a.last)

\* C5: for every non-empty page, in forward and backward mode, reversed or
\* not, countBefore is the number of matching rows strictly before the
\* page's first edge in presentation order and countAfter the number
\* strictly after its last edge; hasPreviousPage = (countBefore > 0) and
\* hasNextPage = (countAfter > 0); asking for at least as many rows as
\* match returns them all with hasNextPage = false.
C5_CountsMatchPosition ==
  (Returned /\ OneMode(args) /\ Len(result) > 0) =>
    LET conn == LastPage.conn
        order == Presentation(SortColumn, args.reverse)
        firstAt == IndexOf(conn.edges[1].node, order)
        lastAt == IndexOf(conn.edges[Len(conn.edges)].node, order)
    IN /\ firstAt # 0 /\ lastAt # 0
       /\ countBefore = firstAt - 1
       /\ countAfter = Len(order) - lastAt
       /\ conn.pageInfo.hasPreviousPage = (countBefore > 0)
       /\ conn.pageInfo.hasNextPage = (countAfter > 0)
       /\ (IsSome(args.first) /\ args.after = None
           /\ Val(args.first) >= Len(order)) =>
            (Nodes(conn) = order /\ ~conn.pageInfo.hasNextPage)

C5_Witness ==
  /\ Returned /\ OneMode(args) /\ Len(result) > 0
  /\ args.reverse /\ IsSome(args.last)
  /\ countBefore > 0 /\ countAfter > 0
  /\ SortColumn # "id" /\ DuplicateSortValues

\* The last n elements of s (all of s when it is shorter).
Suffix(s, n) == SubSeq(s, IF Len(s) > n THEN Len(s) - n + 1 ELSE 1, Len(s))

\* Backward mode: last: n, with or without before.
BackwardMode(a) == IsSome(a.last) /\ a.first = None /\ a.after = None

\* C6: last: n returns the n rows nearest the bound, in presentation
\* order: the final n rows when no before is given (then hasNextPage is
\* false and hasPreviousPage holds iff more than n rows match), the n rows
\* immediately preceding the row of the before cursor otherwise.
C6_BackwardWindow ==
  (Returned /\ BackwardMode(args)) =>
    LET conn == LastPage.conn
        order == Presentation(SortColumn, args.reverse)
        n == Val(args.last)
    IN /\ args.before = None =>
            /\ Nodes(conn) = Suffix(order, n)
            /\ ~conn.pageInfo.hasNextPage
            /\ conn.pageInfo.hasPreviousPage = (Len(order) > n)
       /\ BackwardStep(Len(pages) - 1) =>
            LET at == IndexOf(Val(FirstNode(pages[Len(pages) - 1].conn)),
                              order)
            IN Nodes(conn) = Suffix(SubSeq(order, 1, at - 1), n)

MaxWrites == 1

\* Names without the delimiter, and the tables built from them.
PlainNames == {<<cA>>, <<cB>>}
PlainTables == {t \in [id : Ids, name : PlainNames, category : Categories] :
                  \E i \in 1..NumIds :
                    t.id = IdStr(i) /\ t.category = CategoryOf(i)}

MayWrite(id) ==
  /\ pc = "idle"
  /\ Len(pages) > 0
  /\ \A w \in touched : w[1] # id
  /\ Cardinality(touched) < MaxWrites

\* productRepo.save(newRow) by another client.
InsertRow ==
  \E r \in PlainTables :
    /\ MayWrite(r.id)
    /\ \A x \in db : x.id # r.id
    /\ db' = db \cup {r}
    /\ touched' = touched \cup {<<r.id, "insert">>}
    /\ UNCHANGED <<libVars, builders, calls, cursorColumn, filter, pc, args, query,
                   totalCountQuery,
                   beforeQuery, afterQuery, result, countBefore, countAfter,
                   queriesRun, outcome, pages>>

\* productRepo.delete(id) by another client.
DeleteRow ==
  \E r \in db :
    /\ MayWrite(r.id)
    /\ db' = db \ {r}
    /\ touched' = touched \cup {<<r.id, "delete">>}
    /\ UNCHANGED <<libVars, builders, calls, cursorColumn, filter, pc, args, query,
                   totalCountQuery,
                   beforeQuery, afterQuery, result, countBefore, countAfter,
                   queriesRun, outcome, pages>>

\* productRepo.save(existingRow) by another client: the name changes.
UpdateRow ==
  \E r \in db, nm \in PlainNames :
    /\ MayWrite(r.id)
    /\ nm # r.name
    /\ db' = (db \ {r}) \cup {[r EXCEPT !.name = nm]}
    /\ touched' = touched \cup {<<r.id, "update">>}
    /\ UNCHANGED <<libVars, builders, calls, cursorColumn, filter, pc, args, query,
                   totalCountQuery,
                   beforeQuery, afterQuery, result, countBefore, countAfter,
                   queriesRun, outcome, pages>>

InitMut ==
  /\ Init
  /\ db \subseteq PlainTables

\* A caller paging forward: first: n, optionally after = the held cursor.
ForwardArgChoices ==
  {MakeArgs(f, None, a, None, r) :
     f \in Counts \ {None}, a \in {None, HeldEndCursor}, r \in BOOLEAN}

ForwardPaginate == PaginateWith(ForwardArgChoices)

NextMut ==
  \/ ForwardPaginate \/ GetMany \/ GetCountBefore \/ GetCountAfter
  \/ GetManyUnknownColumn \/ GetCountBeforeUnknownColumn
  \/ InsertRow \/ DeleteRow \/ UpdateRow

SpecMut == InitMut /\ [][NextMut]_vars

\* Every page but the last reported hasNextPage = true.
ContinuedWhileMore ==
  \A k \in 1..(Len(pages) - 1) : pages[k].conn.pageInfo.hasNextPage

\* The row with this id was in the table during the whole run of pages.
ExistedThroughout(id) ==
  <<id, "insert">> \notin touched /\ <<id, "delete">> \notin touched

\* C8: when rows are inserted, deleted or updated between the page requests
\* of a forward traversal, no item is returned in two pages and no item
\* that exists throughout the traversal is missing from the concatenated
\* pages.
C8_ConsistentUnderWrites ==
  (ForwardTraversal /\ ContinuedWhileMore) =>
    LET got == ConcatNodes(pages)
    IN /\ \A i, j \in 1..Len(got) : got[i].id = got[j].id => i = j
       /\ StoppedAtEnd =>
            \A r \in MatchingRows :
              ExistedThroughout(r.id) =>
                \E k \in 1..Len(got) : got[k].id = r.id

\* A paginate call has been made and has got past its argument checks.
CallProceeded == outcome \in {"pending", "returned"}

\* C9: paginate called with both first and last fails, before any database
\* query (window fetch or count) is executed.
C9_FirstAndLastRejected ==
  (IsSome(args.first) /\ IsSome(args.last)) =>
    (~CallProceeded /\ queriesRun = 0)

\* A cursor is supplied without its paired count argument.
UnpairedCursor(a) ==
  \/ IsSome(a.after) /\ ~IsSome(a.first)
  \/ IsSome(a.before) /\ ~IsSome(a.last)

\* C10: paginate fails with 'Invalid cursor pagination arguments' whenever
\* after is given without first or before is given without last.
C10_UnpairedCursorRejected ==
  (outcome # "none" /\ UnpairedCursor(args)) => outcome = "threw"


\* ------------------------------------------------------------------ C11
\* C11: paginate called with the empty cursorColumn '' rejects with the
\* error 'Cursor column is required', that is, before any query is issued,
\* by a check of paginate's own (the model's outcome "threw"); an omitted
\* cursorColumn is 'id'.
C11_EmptyCursorColumnRejected ==
  /\ DefaultCursorColumn = <<"id">>
  /\ (cursorColumn = <<"">> /\ outcome # "none")
       => (outcome = "threw" /\ pc = "idle" /\ queriesRun = 0)


\* ------------------------------------------------------------------ C12
\* The rows of the caller's filter that precede / follow row r in the
\* order the pages are presented in.
FilteredBefore(r, rev) ==
  {x \in MatchingRows :
     IF rev THEN KeyLess(r, x, SortColumn) ELSE KeyLess(x, r, SortColumn)}

FilteredAfter(r, rev) ==
  {x \in MatchingRows :
     IF rev THEN KeyLess(x, r, SortColumn) ELSE KeyLess(r, x, SortColumn)}

\* C12: the caller's WHERE conditions are preserved: every edge of every
\* page satisfies the caller's filter, and countBefore / countAfter count
\* exactly the rows satisfying it that lie before the first / after the
\* last edge.
C12_CallerFilterPreserved ==
  \A k \in 1..Len(pages) :
    LET p == pages[k]
        ns == Nodes(p.conn)
    IN /\ \A j \in 1..Len(ns) : ns[j] \in MatchingRows
       /\ Len(ns) > 0 =>
            /\ p.countBefore =
                 Cardinality(FilteredBefore(ns[1], p.args.reverse))
            /\ p.countAfter =
                 Cardinality(FilteredAfter(ns[Len(ns)], p.args.reverse))

\* A filtered page fetched past a cursor, with filtered rows before it,
\* while the table holds a row outside the filter that the cursor predicate
\* alone would have let through.
C12_Witness ==
  /\ Returned
  /\ IsSome(filter)
  /\ TruthyNum(LastPage.args.first)
  /\ TruthyStr(LastPage.args.after)
  /\ ~LastPage.args.reverse
  /\ Len(LastPage.conn.edges) > 0
  /\ LastPage.countBefore > 0
  /\ \E r \in db \ MatchingRows :
       KeyLess(Nodes(LastPage.conn)[1], r, SortColumn)


\* ------------------------------------------------------------------ C13
\* Concurrent requests: every request creates its query builder and passes
\* it to paginate (product.service.ts, page-info.spec.ts); the calls are
\* suspended at their three awaits and resume in any order.

\* Variant of BuilderOf in which every request is handed the same builder
\* object.
BuilderShared(c) == 1
\* The builder object request c passes to paginate: its own.
BuilderOf(c) == c

\* The cursor getEdges makes for the row with the i-th id.
CursorOfRow(i) ==
  LET r == CHOOSE x \in db : x.id = IdStr(i)
  IN getEdges(<<r>>, ColumnIdOf(cursorColumn))[1].cursor

\* Arguments of the concurrent calls: the first page, the first page of the
\* reversed order, a window past the first row's cursor and a backward
\* window before the last row's cursor.
ConcurrentArgChoices ==
  {MakeArgs(Some(1), None, None, None, FALSE),
   MakeArgs(Some(1), None, None, None, TRUE),
   MakeArgs(Some(MaxFirst), None, Some(CursorOfRow(1)), None, FALSE),
   MakeArgs(None, Some(1), None, Some(CursorOfRow(NumIds)), FALSE)}

seqVars ==
  <<pc, args, query, totalCountQuery, beforeQuery, afterQuery, result,
    countBefore, countAfter, queriesRun, outcome, pages, touched>>

\* paginate.ts 48-93 for request c: clone, order, predicate and limit are
\* applied to the builder the caller passed, and getMany is issued.
CallPaginate(c) ==
  /\ calls[c].pc = "idle"
  /\ \E a \in ConcurrentArgChoices :
       LET bid == BuilderOf(c)
           b == BuildWindowQuery(builders[bid], a, cursorColumn)
       IN /\ ~b.threw
          /\ builders' = [builders EXCEPT ![bid] = b.query]
          /\ calls' = [calls EXCEPT ![c] =
                         [@ EXCEPT !.pc = "getMany", !.builder = bid,
                                   !.args = a, !.query = b.query,
                                   !.totalCountQuery = builders[bid]]]
  /\ UNCHANGED <<libVars, db, cursorColumn, filter, seqVars>>

\* paginate.ts 93-96 and 188-256 for request c.
CallGetMany(c) ==
  /\ calls[c].pc = "getMany"
  /\ LET k == calls[c]
         rows == getMany(k.query, db)
         res == IF TruthyNum(k.args.last) THEN Reverse(rows) ELSE rows
         columnId == ColumnIdOf(cursorColumn)
     IN calls' = [calls EXCEPT ![c] =
          [@ EXCEPT !.pc = "countBefore", !.result = res,
                    !.beforeQuery =
                      BeforeQuery(res, k.totalCountQuery, columnId, k.args),
                    !.afterQuery =
                      AfterQuery(res, k.totalCountQuery, columnId, k.args)]]
  /\ UNCHANGED <<libVars, builders, db, cursorColumn, filter, seqVars>>

\* paginate.ts 258 for request c.
CallGetCountBefore(c) ==
  /\ calls[c].pc = "countBefore"
  /\ calls' = [calls EXCEPT ![c] =
       [@ EXCEPT !.pc = "countAfter",
                 !.countBefore = getCount(calls[c].beforeQuery, db)]]
  /\ UNCHANGED <<libVars, builders, db, cursorColumn, filter, seqVars>>

\* paginate.ts 259-264 and 106-113 for request c.
CallGetCountAfter(c) ==
  /\ calls[c].pc = "countAfter"
  /\ LET k == calls[c]
         ca == getCount(k.afterQuery, db)
     IN calls' = [calls EXCEPT ![c] =
          [@ EXCEPT !.pc = "returned", !.countAfter = ca,
                    !.conn = Some(Connection(k.result,
                                             ColumnIdOf(cursorColumn),
                                             k.countBefore, ca))]]
  /\ UNCHANGED <<libVars, builders, db, cursorColumn, filter, seqVars>>

\* The concurrent requests run against a table holding every id.
InitConc ==
  /\ Init
  /\ ColumnIdOf(cursorColumn) \in EntityColumns
  /\ Cardinality(db) = NumIds

NextConc ==
  \E c \in Callers :
    \/ CallPaginate(c)
    \/ CallGetMany(c)
    \/ CallGetCountBefore(c)
    \/ CallGetCountAfter(c)

SpecConc == InitConc /\ [][NextConc]_vars

\* The connection paginate returns for arguments a when it runs alone on a
\* fresh builder carrying the caller's filter.
Alone(a) ==
  LET q0 == NewQuery(filter)
      columnId == ColumnIdOf(cursorColumn)
      rows == getMany(BuildWindowQuery(q0, a, cursorColumn).query, db)
      res == IF TruthyNum(a.last) THEN Reverse(rows) ELSE rows
      cb == getCount(BeforeQuery(res, q0, columnId, a), db)
      ca == getCount(AfterQuery(res, q0, columnId, a), db)
  IN Connection(res, columnId, cb, ca)

pagVars == <<db, cursorColumn, filter, builders, calls, seqVars>>

\* Code units the cursor values are made of: 'a', '|', U+00E9 (two bytes
\* in UTF-8), U+4E16 (three bytes), and the two halves U+D83C, U+DF0D of
\* U+1F30D (four bytes), which may also occur unpaired in a string.
CodeUnits == {cA, multiColumnDelimiter, 233, 19990, 55356, 57101}

RECURSIVE StringsUpTo(_)
StringsUpTo(n) ==
  IF n = 0 THEN {<<>>}
  ELSE LET shorter == StringsUpTo(n - 1)
       IN shorter \cup {Append(s, c) : s \in shorter, c \in CodeUnits}

CursorValues == StringsUpTo(MaxCursorLen)

\* new Cursor(value, columnId)
CursorNew ==
  /\ cursorCall.pc = "none"
  /\ \E s \in CursorValues, col \in {"id", "name"} :
       cursorCall' = [NoCursorCall EXCEPT !.pc = "constructed",
                                         !.value = s, !.columnId = col]
  /\ UNCHANGED <<pagVars, whereBuilder, joinBuilder, searchCall>>

\* cursor.encode()
CursorEncode ==
  /\ cursorCall.pc = "constructed"
  /\ cursorCall' = [cursorCall EXCEPT !.pc = "encoded",
                                      !.text = encode(cursorCall.value)]
  /\ UNCHANGED <<pagVars, whereBuilder, joinBuilder, searchCall>>

\* new Cursor(encoded, columnId).decode()
CursorDecode ==
  /\ cursorCall.pc = "encoded"
  /\ cursorCall' = [cursorCall EXCEPT !.pc = "decoded",
                                      !.back = decode(cursorCall.text)]
  /\ UNCHANGED <<pagVars, whereBuilder, joinBuilder, searchCall>>

InitCursor ==
  /\ Init
  /\ db = {}
  /\ cursorColumn = DefaultCursorColumn
  /\ filter = None

NextCursor == CursorNew \/ CursorEncode \/ CursorDecode

SpecCursor == InitCursor /\ [][NextCursor]_vars

\* C14: cursor round trip: for every string s, decoding the encoding of s
\* gives s again, and the encoding depends on s alone, not on columnId.
C14_CursorRoundTrip ==
  /\ cursorCall.pc \in {"encoded", "decoded"} =>
       cursorCall.text = encode(cursorCall.value)
  /\ cursorCall.pc = "decoded" => cursorCall.back = cursorCall.value


\* ------------------------------------------------------- filter expressions
\* JavaScript values a leaf filter can carry.  A scalar is given by its kind
\* and its text as a template string writes it; an array by its items.
Scalar(kind, text) == [kind |-> kind, text |-> text, items |-> <<>>]
JsNull == Scalar("null", "null")
JsUndefined == Scalar("undefined", "undefined")
JsString(t) == Scalar("string", t)
JsNumber(n) == Scalar("number", ToString(n))
JsBoolean(b) == Scalar("boolean", IF b THEN "true" ELSE "false")
JsArray(items) == [kind |-> "array", text |-> "", items |-> items]

\* JavaScript truthiness.
Truthy(v) ==
  CASE v.kind \in {"null", "undefined"} -> FALSE
    [] v.kind = "string" -> v.text # ""
    [] v.kind = "number" -> v.text # "0"
    [] v.kind = "boolean" -> v.text = "true"
    [] OTHER -> TRUE

\* v.length > 0 : false when v has no length property.
LengthPositive(v) ==
  CASE v.kind = "string" -> Len(v.text) > 0
    [] v.kind = "array" -> Len(v.items) > 0
    [] OTHER -> FALSE

RECURSIVE JoinText(_, _)
JoinText(blocks, sep) ==
  IF blocks = <<>> THEN ""
  ELSE IF Len(blocks) = 1 THEN blocks[1]
  ELSE blocks[1] \o sep \o JoinText(Tail(blocks), sep)

\* `${v}` : an array is written as its items joined by ','.
TemplateText(v) ==
  IF v.kind = "array"
  THEN JoinText([k \in 1..Len(v.items) |->
                   IF v.items[k].kind \in {"null", "undefined"} THEN ""
                   ELSE v.items[k].text], ",")
  ELSE v.text

\* v[i] for i = 0, 1 on an array (undefined past its end); the leaves
\* carry no strings that are indexed.
ValueAt(v, i) ==
  IF v.kind = "array" /\ i + 1 <= Len(v.items) THEN v.items[i + 1]
  ELSE JsUndefined

\* is-empty-value.ts
isEmptyValue(v) ==
  IF v.kind \in {"null", "undefined"} THEN TRUE
  ELSE IF v.kind = "array" THEN Len(v.items) = 0
  ELSE IF v.kind = "string" THEN Len(v.text) = 0
  ELSE FALSE

\* A leaf filter; relationField "" stands for an absent relationField.
FilterInput(field, operator, value, relationField) ==
  [field |-> field, operator |-> operator, value |-> value,
   relationField |-> relationField]

FiltersExpression(operator, filters, childExpressions) ==
  [operator |-> operator, filters |-> filters,
   childExpressions |-> childExpressions]

\* ------------------------------------------------------------ WhereBuilder
\* The leaves buildExpressionRec keeps: f.value && f.value.length > 0.
HasValue(f) == Truthy(f.value) /\ LengthPositive(f.value)

\* Variant of Compiled that binds no parameter.
CompiledUnbound(wb, f, paramName, sql, bound) ==
  [wb |-> [wb EXCEPT !.fragments = Append(@, [filter |-> f,
                                               paramName |-> paramName,
                                               sql |-> sql,
                                               bound |-> bound])],
   sql |-> sql]

\* The fragment and the parameter assignments of one switch case.
Compiled(wb, f, paramName, sql, bound) ==
  [wb |-> [wb EXCEPT !.params = @ \o bound,
                      !.fragments = Append(@, [filter |-> f,
                                               paramName |-> paramName,
                                               sql |-> sql,
                                               bound |-> bound])],
   sql |-> sql]

\* WhereBuilder.buildFilter on builder state wb: the state after the call
\* and the fragment returned ("" with nothing recorded when it returns
\* undefined; error set when it throws).
buildFilter(wb0, f) ==
  IF ~Truthy(f.value) \/ ~LengthPositive(f.value)
  THEN [wb |-> wb0, sql |-> ""]
  ELSE
    LET wb == [wb0 EXCEPT !.paramsCount = @ + 1]
        paramName == f.field \o "_" \o ToString(wb.paramsCount)
        one == <<[name |-> paramName, value |-> f.value]>>
        wrapped == <<[name |-> paramName,
                      value |-> JsString("%" \o TemplateText(f.value) \o "%")]>>
        op == f.operator
    IN CASE op = "eq" ->
              Compiled(wb, f, paramName, f.field \o " = :" \o paramName, one)
         [] op = "between" /\ wb.betweenDeclared ->
              Compiled(wb, f, paramName,
                       f.field \o " BETWEEN :" \o paramName \o " AND :"
                               \o paramName \o "1",
                       <<[name |-> paramName, value |-> ValueAt(f.value, 0)],
                         [name |-> paramName \o "1",
                          value |-> ValueAt(f.value, 1)]>>)
         [] op = "in" ->
              Compiled(wb, f, paramName,
                       f.field \o " IN (:..." \o paramName \o ")", one)
         [] op = "ilike" ->
              Compiled(wb, f, paramName,
                       f.field \o " ILIKE :" \o paramName, wrapped)
         [] op = "like" ->
              Compiled(wb, f, paramName,
                       f.field \o " LIKE :" \o paramName, wrapped)
         [] op = "gt" ->
              Compiled(wb, f, paramName, f.field \o " > :" \o paramName, one)
         [] op = "gte" ->
              Compiled(wb, f, paramName, f.field \o " >= :" \o paramName, one)
         [] op = "lt" ->
              Compiled(wb, f, paramName, f.field \o " < :" \o paramName, one)
         [] op = "lte" ->
              Compiled(wb, f, paramName, f.field \o " <= :" \o paramName, one)
         [] op = "not" ->
              Compiled(wb, f, paramName, f.field \o " != :" \o paramName, one)
         [] OTHER ->
              [wb |-> [wb EXCEPT !.error = "Unknown filter operation: " \o op],
               sql |-> ""]

\* filtersWithValues.map(buildFilter), left to right; an exception ends it.
RECURSIVE BuildFilters(_, _)
BuildFilters(wb, fs) ==
  IF fs = <<>> \/ wb.error # "" THEN [wb |-> wb, blocks |-> <<>>]
  ELSE LET r == buildFilter(wb, Head(fs))
           rest == BuildFilters(r.wb, Tail(fs))
       IN [wb |-> rest.wb, blocks |-> <<r.sql>> \o rest.blocks]

RECURSIVE buildExpressionRec(_, _)
RECURSIVE BuildChildren(_, _)
\* childExpressions.map(buildExpressionRec), left to right.
BuildChildren(wb, cs) ==
  IF cs = <<>> \/ wb.error # "" THEN [wb |-> wb, blocks |-> <<>>]
  ELSE LET r == buildExpressionRec(wb, Head(cs))
           rest == BuildChildren(r.wb, Tail(cs))
       IN [wb |-> rest.wb, blocks |-> <<r.sql>> \o rest.blocks]

\* WhereBuilder.buildExpressionRec: the leaves with values, then the
\* children, joined by the node's operator and parenthesised.
buildExpressionRec(wb, fe) ==
  LET filtersWithValues == SelectSeq(fe.filters, HasValue)
      filters == BuildFilters(wb, filtersWithValues)
      children == BuildChildren(filters.wb, fe.childExpressions)
      allSqlBlocks == filters.blocks \o children.blocks
      sqLExpr == JoinText(allSqlBlocks, " " \o fe.operator \o " ")
  IN [wb |-> children.wb,
      sql |-> IF sqLExpr = "" THEN "" ELSE "(" \o sqLExpr \o ")"]

\* Values of ComparisonOperatorEnum (with 'between', which one of the two
\* copies of the enum declares), and a string that is no member.
ComparisonOperators ==
  {"any", "contains", "eq", "between", "gt", "gte", "in", "lt", "lte",
   "ilike", "like", "not", "not_in", "not_like", "overlap"}

LeafOperators == ComparisonOperators \cup {"INVALID_OPERATOR"}

LeafFields == {"Product.price", "User.name"}

LeafValues ==
  {JsNull, JsUndefined, JsString(""), JsString("John"), JsNumber(0),
   JsNumber(100), JsBoolean(TRUE), JsBoolean(FALSE), JsArray(<<>>),
   JsArray(<<JsNumber(10), JsNumber(100)>>)}

\* A leaf that every version of the builder keeps and compiles.
PlainLeaf == FilterInput("User.name", "eq", JsString("John"), "")

\* k plain leaves.
PlainLeaves(k) == [j \in 1..k |-> PlainLeaf]

\* The expressions given to the builder: one node whose last leaf is any
\* leaf at all, after up to MaxLeaves - 1 plain leaves.
WhereExpressions ==
  {FiltersExpression(lop, Append(PlainLeaves(k),
                                 FilterInput(fld, op, v, "")), <<>>) :
     lop \in {"and"}, k \in 0..(MaxLeaves - 1), fld \in LeafFields,
     op \in LeafOperators, v \in LeafValues}

\* new WhereBuilder(qb, filtersExpression); the build declares BETWEEN in
\* ComparisonOperatorEnum or leaves ComparisonOperatorEnum.BETWEEN undefined.
WhereBuilderNew ==
  /\ whereBuilder.pc = "none"
  /\ \E fe \in WhereExpressions, declared \in BOOLEAN :
       whereBuilder' = [NoWhereBuilder EXCEPT !.pc = "constructed",
                                             !.betweenDeclared = declared,
                                             !.filtersExpression = fe]
  /\ UNCHANGED <<pagVars, cursorCall, joinBuilder, searchCall>>

\* A map as the list of its assignments leaves it: the last value of each
\* name.
ParamsMap(assignments) ==
  [n \in {assignments[k].name : k \in 1..Len(assignments)} |->
     LET last == CHOOSE k \in 1..Len(assignments) :
                   /\ assignments[k].name = n
                   /\ \A j \in (k + 1)..Len(assignments) :
                        assignments[j].name # n
     IN assignments[last].value]

\* WhereBuilder.build()
WhereBuilderBuild ==
  /\ whereBuilder.pc = "constructed"
  /\ LET r == buildExpressionRec(whereBuilder, whereBuilder.filtersExpression)
     IN whereBuilder' =
          IF r.wb.error # ""
          THEN [r.wb EXCEPT !.pc = "threw"]
          ELSE [r.wb EXCEPT !.pc = "built",
                            !.whereCalls =
                              Append(@, [sql |-> r.sql, params |-> r.wb.params])]
  /\ UNCHANGED <<pagVars, cursorCall, joinBuilder, searchCall>>

InitWhere ==
  /\ Init
  /\ db = {}
  /\ cursorColumn = DefaultCursorColumn
  /\ filter = None

NextWhere == WhereBuilderNew \/ WhereBuilderBuild

SpecWhere == InitWhere /\ [][NextWhere]_vars

\* ------------------------------------------------------------------ C15
\* The leaf under test: the last leaf of the root node.
TestedLeaf ==
  LET fs == whereBuilder.filtersExpression.filters IN fs[Len(fs)]

\* The number of fragments the builder compiled from leaf f.
FragmentsOf(f) ==
  Cardinality({k \in 1..Len(whereBuilder.fragments) :
                 whereBuilder.fragments[k].filter = f})

\* C15: WhereBuilder skips a leaf exactly when its value is empty in the
\* sense of isEmptyValue (null, undefined, '' or []); every other value,
\* the numbers 0 and 100 and the booleans included, is retained and
\* contributes a fragment and a bound parameter.
C15_SkipsExactlyEmptyValues ==
  (/\ whereBuilder.pc = "built"
   /\ TestedLeaf # PlainLeaf)
  => (isEmptyValue(TestedLeaf.value) <=> FragmentsOf(TestedLeaf) = 0)


\* ------------------------------------------------------------------ C16
\* The reference mapping: operator and parameter name to fragment.
MappedOperators ==
  {"eq", "not", "gt", "gte", "lt", "lte", "in", "like", "ilike"}

RefFragment(op, f, p) ==
  CASE op = "eq" -> f \o " = :" \o p
    [] op = "not" -> f \o " != :" \o p
    [] op = "gt" -> f \o " > :" \o p
    [] op = "gte" -> f \o " >= :" \o p
    [] op = "lt" -> f \o " < :" \o p
    [] op = "lte" -> f \o " <= :" \o p
    [] op = "in" -> f \o " IN (:..." \o p \o ")"
    [] op = "like" -> f \o " LIKE :" \o p
    [] op = "ilike" -> f \o " ILIKE :" \o p

\* The value bound: the leaf's value, wrapped in % for LIKE and ILIKE.
RefBound(op, v) ==
  IF op \in {"like", "ilike"}
  THEN JsString("%" \o TemplateText(v) \o "%")
  ELSE v

\* The leaves of the root node are all retained when the tested leaf is:
\* the tested leaf takes the counter to their number.
TestedParamName ==
  TestedLeaf.field \o "_"
    \o ToString(Len(whereBuilder.filtersExpression.filters))

LastFragment == whereBuilder.fragments[Len(whereBuilder.fragments)]

ReadmeOperators ==
  {"eq", "not", "in", "not_in", "like", "ilike", "gt", "gte", "lt", "lte",
   "between", "contains", "any", "overlap"}

\* C17: a leaf with a non-empty value and any operator the README lists as
\* supported compiles to a WHERE fragment; build() raises no error.
C17_ReadmeOperatorsAccepted ==
  (/\ whereBuilder.pc \in {"built", "threw"}
   /\ HasValue(TestedLeaf)
   /\ TestedLeaf.operator \in ReadmeOperators)
  => (/\ whereBuilder.pc = "built"
      /\ LastFragment.filter = TestedLeaf)


\* ------------------------------------------------------------------ C18
\* field_N
ParamNamed(field, n) == field \o "_" \o ToString(n)

\* C18: a BETWEEN leaf on field f with value [a, b], compiled when the
\* parameter counter is at N - 1, yields 'f BETWEEN :f_N AND :f_(N+1)' and
\* binds f_N = a and f_(N+1) = b.
C18_BetweenUsesNextSuffix ==
  (/\ whereBuilder.pc \in {"built", "threw"}
   /\ TestedLeaf.operator = "between"
   /\ TestedLeaf.value.kind = "array"
   /\ Len(TestedLeaf.value.items) = 2)
  => LET f == TestedLeaf.field
         n == Len(whereBuilder.filtersExpression.filters)
         lo == ParamNamed(f, n)
         hi == ParamNamed(f, n + 1)
     IN /\ whereBuilder.pc = "built"
        /\ LastFragment.sql = f \o " BETWEEN :" \o lo \o " AND :" \o hi
        /\ {lo, hi} \subseteq DOMAIN ParamsMap(whereBuilder.whereCalls[1].params)
        /\ ParamsMap(whereBuilder.whereCalls[1].params)[lo]
             = TestedLeaf.value.items[1]
        /\ ParamsMap(whereBuilder.whereCalls[1].params)[hi]
             = TestedLeaf.value.items[2]


\* -------------------------------------------------------------- JoinBuilder
\* Field paths are strings of code units here, so that split('.') is
\* computed: 'P.b', 'P.a', 'O.t', 'U.n', '', 'n'.
cDot == 46
FieldPb == <<80, cDot, 98>>
FieldPa == <<80, cDot, 97>>
FieldOt == <<79, cDot, 116>>
FieldUn == <<85, cDot, 110>>
FieldEmpty == <<>>
FieldNoDot == <<110>>

\* field.split('.')[0]
EntityNameOf(field) == Split(field, cDot)[1]

\* Variant of addJoinEntity that does not consult joinedEntities.
addJoinEntityEveryTime(jb, field, relationField) ==
  LET entityName == EntityNameOf(field)
  IN IF entityName = <<>>
     THEN [jb EXCEPT !.error = "Entity name is required"]
     ELSE IF relationField # ""
     THEN [jb EXCEPT !.joinCalls = Append(@, [relationField |-> relationField,
                                              alias |-> entityName]),
                     !.joinedEntities = @ \cup {entityName}]
     ELSE jb

\* JoinBuilder.addJoinEntity
addJoinEntity(jb, field, relationField) ==
  LET entityName == EntityNameOf(field)
  IN IF entityName = <<>>
     THEN [jb EXCEPT !.error = "Entity name is required"]
     ELSE IF relationField # "" /\ entityName \notin jb.joinedEntities
     THEN [jb EXCEPT !.joinCalls = Append(@, [relationField |-> relationField,
                                              alias |-> entityName]),
                     !.joinedEntities = @ \cup {entityName}]
     ELSE jb

\* JoinBuilder.buildJoinEntitiesRec: the leaves of the node, then its child
\* expressions, in order; an exception ends the traversal.
RECURSIVE JoinLeaves(_, _)
JoinLeaves(jb, fs) ==
  IF fs = <<>> \/ jb.error # "" THEN jb
  ELSE JoinLeaves(addJoinEntity(jb, Head(fs).field, Head(fs).relationField),
                  Tail(fs))

RECURSIVE buildJoinEntitiesRec(_, _)
RECURSIVE JoinChildren(_, _)
JoinChildren(jb, cs) ==
  IF cs = <<>> \/ jb.error # "" THEN jb
  ELSE JoinChildren(buildJoinEntitiesRec(jb, Head(cs)), Tail(cs))

buildJoinEntitiesRec(jb, fe) ==
  JoinChildren(JoinLeaves(jb, fe.filters), fe.childExpressions)

\* The leaves given to the builder: two on alias P with the same
\* relationField, one on P with another, one on O with and one without a
\* relationField, one without relationField on U, and two whose field has
\* no 'Entity.' prefix.
JoinLeafChoices ==
  {FilterInput(FieldPb, "like", JsString("developer"), "User.profile"),
   FilterInput(FieldPa, "gt", JsString("25"), "User.profile"),
   FilterInput(FieldPa, "gt", JsString("25"), "User.account"),
   FilterInput(FieldOt, "eq", JsString("9"), "User.orders"),
   FilterInput(FieldOt, "eq", JsString("9"), ""),
   FilterInput(FieldUn, "eq", JsString("John"), ""),
   FilterInput(FieldEmpty, "eq", JsString("test"), "User.profile"),
   FilterInput(FieldNoDot, "eq", JsString("test"), "User.profile")}

RECURSIVE LeafSeqsUpTo(_)
LeafSeqsUpTo(n) ==
  IF n = 0 THEN {<<>>}
  ELSE LET shorter == LeafSeqsUpTo(n - 1)
       IN shorter \cup {Append(fs, f) : fs \in shorter, f \in JoinLeafChoices}

\* Chains of nodes below the root: none, a child with one leaf, or a child
\* with one leaf that has a child with one leaf.
ChildChains ==
  {<<>>}
  \cup {<<FiltersExpression("or", <<f>>, <<>>)>> : f \in JoinLeafChoices}
  \cup {<<FiltersExpression("or", <<f>>,
                            <<FiltersExpression("and", <<g>>, <<>>)>>)>> :
          f \in JoinLeafChoices, g \in JoinLeafChoices}

JoinExpressions ==
  {FiltersExpression("and", fs, cs) :
     fs \in LeafSeqsUpTo(MaxJoinLeaves), cs \in ChildChains}

\* new JoinBuilder(qb, filtersExpression)
JoinBuilderNew ==
  /\ joinBuilder.pc = "none"
  /\ \E fe \in JoinExpressions :
       joinBuilder' = [NoJoinBuilder EXCEPT !.pc = "constructed",
                                           !.filtersExpression = fe]
  /\ UNCHANGED <<pagVars, cursorCall, whereBuilder, searchCall>>

\* JoinBuilder.build().  An absent filtersExpression returns at once, which
\* is what the expression without leaves and children does too.
JoinBuilderBuild ==
  /\ joinBuilder.pc = "constructed"
  /\ LET jb == buildJoinEntitiesRec(joinBuilder, joinBuilder.filtersExpression)
     IN joinBuilder' =
          [jb EXCEPT !.pc = IF jb.error # "" THEN "threw" ELSE "built"]
  /\ UNCHANGED <<pagVars, cursorCall, whereBuilder, searchCall>>

InitJoin ==
  /\ Init
  /\ db = {}
  /\ cursorColumn = DefaultCursorColumn
  /\ filter = None

NextJoin == JoinBuilderNew \/ JoinBuilderBuild

SpecJoin == InitJoin /\ [][NextJoin]_vars

\* ------------------------------------------------------------------ C19
\* All leaves of a filter tree.
RECURSIVE LeavesOf(_)
RECURSIVE LeavesOfAll(_)
LeavesOfAll(cs) ==
  IF cs = <<>> THEN {} ELSE LeavesOf(Head(cs)) \cup LeavesOfAll(Tail(cs))

LeavesOf(fe) ==
  {fe.filters[k] : k \in 1..Len(fe.filters)} \cup LeavesOfAll(fe.childExpressions)

\* The text of a field before its first '.'.
RECURSIVE AliasOf(_)
AliasOf(field) ==
  IF field = <<>> \/ Head(field) = cDot THEN <<>>
  ELSE <<Head(field)>> \o AliasOf(Tail(field))

\* The entity aliases of the leaves that carry a relationField.
RelationAliases(fe) ==
  {AliasOf(f.field) : f \in {g \in LeavesOf(fe) : g.relationField # ""}}

\* C19: JoinBuilder joins each distinct entity alias at most once: the number
\* of leftJoinAndSelect calls equals the number of distinct entity aliases
\* among the leaves that carry a relationField, and a leaf without
\* relationField never causes a join.
C19_OneJoinPerAlias ==
  LET jc == joinBuilder.joinCalls
  IN /\ \A i, j \in 1..Len(jc) : jc[i].alias = jc[j].alias => i = j
     /\ \A i \in 1..Len(jc) :
          \E f \in LeavesOf(joinBuilder.filtersExpression) :
            /\ f.relationField = jc[i].relationField
            /\ f.relationField # ""
            /\ AliasOf(f.field) = jc[i].alias
     /\ joinBuilder.pc = "built" =>
          Len(jc) = Cardinality(RelationAliases(joinBuilder.filtersExpression))

\* A built tree three levels deep in which two leaves share an alias, a
\* third leaf on another alias is nested, and one leaf has no relationField.
C19_Witness ==
  /\ joinBuilder.pc = "built"
  /\ Len(joinBuilder.joinCalls) = 2
  /\ Len(joinBuilder.filtersExpression.filters) = 2
  /\ joinBuilder.filtersExpression.filters[1].field = FieldPb
  /\ joinBuilder.filtersExpression.filters[2].field = FieldPa
  /\ Len(joinBuilder.filtersExpression.childExpressions) = 1
  /\ LET c == joinBuilder.filtersExpression.childExpressions[1]
     IN /\ c.filters[1].field = FieldUn
        /\ Len(c.childExpressions) = 1
        /\ c.childExpressions[1].filters[1].field = FieldOt

\* ------------------------------------------------------------------ C20
\* A field path has an entity-alias prefix when a non-empty alias is followed
\* by a '.'.
HasEntityPrefix(field) ==
  /\ AliasOf(field) # <<>>
  /\ Len(AliasOf(field)) < Len(field)

\* C20: build() fails with 'Entity name is required' whenever some leaf of
\* the tree has a field without an entity-alias prefix, such as '' or a path
\* with no 'Entity.' prefix.
C20_MissingEntityNameRejected ==
  (/\ joinBuilder.pc \in {"built", "threw"}
   /\ \E f \in LeavesOf(joinBuilder.filtersExpression) :
        ~HasEntityPrefix(f.field))
    => (joinBuilder.pc = "threw" /\ joinBuilder.error = "Entity name is required")


\* ------------------------------------- buildFiltersExpressionFromQueryString
cSpace == 32
cQuote == 34
\* The characters \s matches among those used here.
IsWhitespace(c) == c \in {9, 10, 13, cSpace}

\* s.split(/\s+/g): the pieces between the runs of whitespace; a run at the
\* start or the end leaves an empty piece there, and '' gives [''].
RECURSIVE SplitWhitespaceFrom(_, _, _)
SplitWhitespaceFrom(s, cur, inRun) ==
  IF s = <<>> THEN <<cur>>
  ELSE IF IsWhitespace(Head(s))
  THEN IF inRun THEN SplitWhitespaceFrom(Tail(s), cur, TRUE)
       ELSE <<cur>> \o SplitWhitespaceFrom(Tail(s), <<>>, TRUE)
  ELSE SplitWhitespaceFrom(Tail(s), Append(cur, Head(s)), FALSE)

SplitWhitespace(s) == SplitWhitespaceFrom(s, <<>>, FALSE)

\* s.trim()
RECURSIVE TrimStart(_)
TrimStart(s) ==
  IF s # <<>> /\ IsWhitespace(Head(s)) THEN TrimStart(Tail(s)) ELSE s

RECURSIVE TrimEnd(_)
TrimEnd(s) ==
  IF s # <<>> /\ IsWhitespace(s[Len(s)])
  THEN TrimEnd(SubSeq(s, 1, Len(s) - 1)) ELSE s

Trim(s) == TrimEnd(TrimStart(s))

\* s.replace(/"/g, '')
RemoveQuotes(s) == SelectSeq(s, LAMBDA c : c # cQuote)

QuotePositions(s) == {i \in 1..Len(s) : s[i] = cQuote}
Least(S) == CHOOSE x \in S : \A y \in S : x <= y
Greatest(S) == CHOOSE x \in S : \A y \in S : x >= y

\* query.split(/"([\s\S]+)"/g): the match runs from the first quote to the
\* last one when at least one character lies between them; the pieces are
\* the text before it, the captured text and the text after it.
SplitQuoted(queryString) ==
  LET qs == QuotePositions(queryString)
  IN IF qs # {} /\ Greatest(qs) >= Least(qs) + 2
     THEN <<SubSeq(queryString, 1, Least(qs) - 1),
            SubSeq(queryString, Least(qs) + 1, Greatest(qs) - 1),
            SubSeq(queryString, Greatest(qs) + 1, Len(queryString))>>
     ELSE <<queryString>>

\* .map(...).flat()
RECURSIVE FlatMapTerms(_)
FlatMapTerms(pieces) ==
  IF pieces = <<>> THEN <<>>
  ELSE SplitWhitespace(RemoveQuotes(Trim(Head(pieces))))
         \o FlatMapTerms(Tail(pieces))

\* search-like-filter.ts 42-47
searchTerms(queryString) ==
  IF QuotePositions(queryString) # {}
  THEN FlatMapTerms(SplitQuoted(queryString))
  ELSE SplitWhitespace(queryString)

\* search-like-filter.ts 49-58: the leaves of one term, then of all terms.
RECURSIVE TermLeaves(_, _, _)
TermLeaves(term, entityName, fieldNames) ==
  IF fieldNames = <<>> THEN <<>>
  ELSE <<FilterInput(entityName \o <<cDot>> \o Head(fieldNames), "ilike",
                     term, "")>>
         \o TermLeaves(term, entityName, Tail(fieldNames))

RECURSIVE filterInputs(_, _, _)
filterInputs(terms, entityName, fieldNames) ==
  IF terms = <<>> THEN <<>>
  ELSE TermLeaves(Head(terms), entityName, fieldNames)
         \o filterInputs(Tail(terms), entityName, fieldNames)

buildFiltersExpressionFromQueryString(queryString, entityName, fieldNames) ==
  FiltersExpression("or",
                    filterInputs(searchTerms(queryString), entityName, fieldNames),
                    <<>>)

\* Queries over 'a', 'b', ' ' and '"'; entity 'P'; fields 'n' and 'd'.
QueryUnits == {cA, cB, cSpace, cQuote}
RECURSIVE QueriesUpTo(_)
QueriesUpTo(n) ==
  IF n = 0 THEN {<<>>}
  ELSE LET shorter == QueriesUpTo(n - 1)
       IN shorter \cup {Append(s, c) : s \in shorter, c \in QueryUnits}

Queries == QueriesUpTo(MaxQueryLen)
SearchEntityNames == {<<80>>}
SearchFieldLists == {<<>>, <<<<110>>>>, <<<<110>>, <<100>>>>}

\* The call is made.
SearchCall ==
  /\ searchCall.pc = "none"
  /\ \E q \in Queries, e \in SearchEntityNames, fs \in SearchFieldLists :
       searchCall' = [NoSearchCall EXCEPT !.pc = "called", !.query = q,
                                          !.entityName = e, !.fieldNames = fs]
  /\ UNCHANGED <<pagVars, cursorCall, whereBuilder, joinBuilder>>

\* The call returns its FiltersExpression.
SearchReturn ==
  /\ searchCall.pc = "called"
  /\ searchCall' =
       [searchCall EXCEPT
          !.pc = "returned",
          !.result = buildFiltersExpressionFromQueryString(
                       searchCall.query, searchCall.entityName,
                       searchCall.fieldNames)]
  /\ UNCHANGED <<pagVars, cursorCall, whereBuilder, joinBuilder>>

InitSearch ==
  /\ Init
  /\ db = {}
  /\ cursorColumn = DefaultCursorColumn
  /\ filter = None

NextSearch == SearchCall \/ SearchReturn

SpecSearch == InitSearch /\ [][NextSearch]_vars

\* ------------------------------------------------------------------ C21
\* The whitespace-delimited tokens of a query: the maximal runs of
\* characters that are neither whitespace nor a quote.
RECURSIVE TokensFrom(_, _)
TokensFrom(s, cur) ==
  IF s = <<>> THEN (IF cur = <<>> THEN <<>> ELSE <<cur>>)
  ELSE IF IsWhitespace(Head(s)) \/ Head(s) = cQuote
  THEN (IF cur = <<>> THEN <<>> ELSE <<cur>>) \o TokensFrom(Tail(s), <<>>)
  ELSE TokensFrom(Tail(s), Append(cur, Head(s)))

Tokens(s) == TokensFrom(s, <<>>)

\* C21: the result is one OR node without children whose leaves are one
\* ILIKE leaf per (term, field) pair in term-major order, with field
\* 'entity.fieldName' and the term as value, the terms being the
\* whitespace-delimited tokens of the query; there are |terms| * |fields|
\* leaves.
C21_OneLeafPerTermAndField ==
  searchCall.pc = "returned" =>
    LET terms == Tokens(searchCall.query)
        fs == searchCall.fieldNames
        r == searchCall.result
    IN /\ r.operator = "or"
       /\ r.childExpressions = <<>>
       /\ Len(r.filters) = Len(terms) * Len(fs)
       /\ \A t \in 1..Len(terms), k \in 1..Len(fs) :
            LET leaf == r.filters[(t - 1) * Len(fs) + k]
            IN /\ leaf.field = searchCall.entityName \o <<cDot>> \o fs[k]
               /\ leaf.operator = "ilike"
               /\ leaf.value = terms[t]


\* ------------------------------------------------------------------ C22
\* The call has one direction: exactly one of first and last is set.
ForwardCall(a) == TruthyNum(a.first) /\ ~TruthyNum(a.last)
BackwardCall(a) == TruthyNum(a.last) /\ ~TruthyNum(a.first)

\* The operator of the direction x reverse table.
TableOperator(a) ==
  IF TruthyNum(a.first) /\ TruthyStr(a.after)
  THEN (IF a.reverse THEN "LessThan" ELSE "MoreThan")
  ELSE (IF a.reverse THEN "MoreThan" ELSE "LessThan")

\* The rows of s are in strictly ascending (descending when rev) key order.
InKeyOrder(s, col, rev) ==
  \A k \in 1..(Len(s) - 1) :
    IF rev THEN KeyLess(s[k + 1], s[k], col) ELSE KeyLess(s[k], s[k + 1], col)

\* C22: the cursor predicate of a forward call (first + after) uses '>' and
\* with reverse '<', that of a backward call (last + before) uses '<' and
\* with reverse '>'; the rows of a page are ascending, and descending with
\* reverse; first: n with reverse returns the n largest keys in descending
\* order, and continuing it with after = endCursor returns strictly smaller
\* keys only.
C22_OperatorFollowsDirectionAndReverse ==
  /\ (outcome \in {"pending", "returned"} /\ IsSome(CursorOf(args))) =>
       /\ Len(query.wheres) > 0
       /\ query.wheres[Len(query.wheres)].kind = "bracket"
       /\ query.wheres[Len(query.wheres)].op = TableOperator(args)
  /\ (Returned /\ (ForwardCall(args) \/ BackwardCall(args))) =>
       LET got == Nodes(LastPage.conn)
       IN /\ InKeyOrder(got, SortColumn, args.reverse)
          /\ (ForwardCall(args) /\ args.reverse /\ ~TruthyStr(args.after)) =>
               got = Prefix(Reverse(Ascending(MatchingRows, SortColumn)),
                            Val(args.first))
          /\ (/\ ForwardCall(args) /\ args.reverse /\ Len(pages) >= 2
              /\ ContinuesForward(pages[Len(pages) - 1], args)) =>
               LET before == Nodes(pages[Len(pages) - 1].conn)
               IN \A k \in 1..Len(got) :
                    KeyLess(got[k], before[Len(before)], SortColumn)

\* A reversed forward traversal on the non-unique column whose second page
\* holds a row, and a reversed backward call that applied a cursor.
C22_Witness ==
  /\ Returned /\ ForwardCall(args) /\ args.reverse
  /\ SortColumn = "name"
  /\ Len(pages) >= 2
  /\ ContinuesForward(pages[Len(pages) - 1], args)
  /\ Len(LastPage.conn.edges) > 0
  /\ Len(pages[1].conn.edges) = 2

C22_WitnessBackward ==
  /\ Returned /\ BackwardCall(args) /\ args.reverse
  /\ IsSome(CursorOf(args))
  /\ Len(LastPage.conn.edges) > 0


\* ------------------------------------------------------------------ C23
\* The count queries of the running call exist: the window rows arrived.
CountQueriesBuilt ==
  /\ SortColumn \in EntityColumns
  /\ pc \in {"countBefore", "countAfter"} \/ Returned

\* The conditions of q beyond those of the caller's own query.
AddedWheres(q) ==
  SubSeq(q.wheres, Len(NewQuery(filter).wheres) + 1, Len(q.wheres))

\* C23: the two count queries are clones of the query as the caller passed
\* it: they carry no ordering and no limit, they keep the caller's
\* conditions, and each carries exactly one further condition, which is
\* neither the cursor predicate of the window query nor the condition of
\* the other count query.
C23_CountQueriesAreIsolatedClones ==
  CountQueriesBuilt =>
    /\ totalCountQuery = NewQuery(filter)
    /\ \A q \in {beforeQuery, afterQuery} :
         /\ q.orderBys = <<>>
         /\ q.take = None
         /\ Len(q.wheres) = Len(NewQuery(filter).wheres) + 1
         /\ SubSeq(q.wheres, 1, Len(q.wheres) - 1) = NewQuery(filter).wheres
         /\ \A k \in 1..Len(AddedWheres(query)) :
              AddedWheres(query)[k] # AddedWheres(q)[1]
    /\ AddedWheres(beforeQuery)[1] # AddedWheres(afterQuery)[1]

\* A call with a caller filter and a cursor has built its count queries,
\* while its window query carries ordering, cursor predicate and limit.
C23_Witness ==
  /\ CountQueriesBuilt
  /\ pc = "countAfter"
  /\ IsSome(filter)
  /\ IsSome(CursorOf(args))
  /\ Len(AddedWheres(query)) = 1
  /\ Len(query.orderBys) = 2
  /\ IsSome(query.take)
  /\ Len(result) > 0


\* ------------------------------------------- WhereBuilder, nested expressions
\* Leaves of the nested expressions: a plain leaf, a leaf without value, a
\* comparison and a range on Product.price.
EmptyValueLeaf == FilterInput("User.name", "eq", JsString(""), "")
PriceAbove == FilterInput("Product.price", "gt", JsString("10"), "")
PriceBetween ==
  FilterInput("Product.price", "between",
              JsArray(<<JsNumber(10), JsNumber(100)>>), "")

NestedLeafChoices == {PlainLeaf, EmptyValueLeaf, PriceAbove, PriceBetween}

RECURSIVE NestedLeafSeqsUpTo(_)
NestedLeafSeqsUpTo(n) ==
  IF n = 0 THEN {<<>>}
  ELSE LET shorter == NestedLeafSeqsUpTo(n - 1)
       IN shorter \cup {Append(fs, f) : fs \in shorter, f \in NestedLeafChoices}

\* A child node: no leaf or one leaf, and possibly a child of its own with
\* one leaf.
ChildNodes ==
  {FiltersExpression("or", fs, <<>>) : fs \in NestedLeafSeqsUpTo(1)}
  \cup {FiltersExpression("or", <<>>, <<FiltersExpression("and", <<f>>, <<>>)>>) :
          f \in {PlainLeaf, EmptyValueLeaf}}

ChildLists ==
  {<<>>} \cup {<<c>> : c \in ChildNodes}
         \cup {<<c1, c2>> : c1 \in ChildNodes, c2 \in ChildNodes}

\* One node with a range and then comparisons, all on the same field.
SameFieldExpression(k) ==
  FiltersExpression("and",
                    [j \in 1..k |-> IF j = 1 THEN PriceBetween ELSE PriceAbove],
                    <<>>)

NestedExpressions ==
  {FiltersExpression(lop, fs, cs) :
     lop \in {"and", "or"}, fs \in NestedLeafSeqsUpTo(MaxNestedLeaves),
     cs \in ChildLists}
  \cup {SameFieldExpression(k) : k \in 1..MaxSameFieldLeaves}

\* new WhereBuilder(qb, filtersExpression) with a nested expression.
WhereBuilderNewNested ==
  /\ whereBuilder.pc = "none"
  /\ \E fe \in NestedExpressions, declared \in BOOLEAN :
       whereBuilder' = [NoWhereBuilder EXCEPT !.pc = "constructed",
                                             !.betweenDeclared = declared,
                                             !.filtersExpression = fe]
  /\ UNCHANGED <<pagVars, cursorCall, joinBuilder, searchCall>>

NextWhereNested == WhereBuilderNewNested \/ WhereBuilderBuild

SpecWhereNested == InitWhere /\ [][NextWhereNested]_vars

\* ------------------------------------------------------------------ C24
\* The compiled text the rule describes, given the fragments of the
\* retained leaves in the order they were compiled: a node's retained
\* leaves and its non-empty children, joined by its operator, in
\* parentheses; "" when there are none.  rest is what remains of frags.
RECURSIVE RefNode(_, _)
RECURSIVE RefChildren(_, _)
RefChildren(cs, frags) ==
  IF cs = <<>> THEN [blocks |-> <<>>, rest |-> frags]
  ELSE LET r == RefNode(Head(cs), frags)
           more == RefChildren(Tail(cs), r.rest)
       IN [blocks |-> (IF r.sql = "" THEN <<>> ELSE <<r.sql>>) \o more.blocks,
           rest |-> more.rest]

RefNode(fe, frags) ==
  LET n == Len(SelectSeq(fe.filters, HasValue))
      leafBlocks == [k \in 1..n |-> frags[k].sql]
      children == RefChildren(fe.childExpressions, SubSeq(frags, n + 1, Len(frags)))
      blocks == leafBlocks \o children.blocks
      joined == JoinText(blocks, " " \o fe.operator \o " ")
  IN [sql |-> IF blocks = <<>> THEN "" ELSE "(" \o joined \o ")",
      rest |-> children.rest]

\* C24: a node compiles to the fragments of its retained leaves and its
\* non-empty children joined by its operator and wrapped in parentheses; a
\* node without retained leaves and non-empty children compiles to "" and
\* is left out of its parent's join, so no operator is left dangling.
C24_EmptyNodesAreElided ==
  whereBuilder.pc = "built" =>
    whereBuilder.whereCalls[1].sql =
      RefNode(whereBuilder.filtersExpression, whereBuilder.fragments).sql

\* ------------------------------------------------------------------ C25
\* The fragments compiled from BETWEEN leaves, and from the other leaves.
BetweenFragments ==
  {k \in 1..Len(whereBuilder.fragments) :
     whereBuilder.fragments[k].filter.operator = "between"}
OtherFragments == (1..Len(whereBuilder.fragments)) \ BetweenFragments

\* C25: within one build every retained leaf is named 'field_N' by one
\* counter shared by the whole tree, the parameter map has one key per
\* retained leaf that is no BETWEEN and two per BETWEEN leaf, and no key is
\* assigned twice.
C25_ParameterNamesUnique ==
  whereBuilder.pc = "built" =>
    LET ps == whereBuilder.params
    IN /\ \A k \in 1..Len(whereBuilder.fragments) :
            whereBuilder.fragments[k].paramName =
              whereBuilder.fragments[k].filter.field \o "_" \o ToString(k)
       /\ \A i, j \in 1..Len(ps) : ps[i].name = ps[j].name => i = j
       /\ Cardinality(DOMAIN ParamsMap(ps)) =
            Cardinality(OtherFragments) + 2 * Cardinality(BetweenFragments)


\* ------------------------------------------------------------------ C26
\* The running call is {first: n, after: cursor} in ascending order on a
\* column of the entity.
ForwardAfterCall ==
  /\ ForwardCall(args) /\ TruthyStr(args.after) /\ ~args.reverse
  /\ SortColumn \in EntityColumns

\* The key encoded in the cursor: the id, or the sort value and the id.
CursorKey(cursor) ==
  LET parts == Split(decode(cursor), multiColumnDelimiter)
  IN IF SortColumn = "id"
     THEN [id |-> parts[1]]
     ELSE [name |-> parts[1], id |-> parts[2]]

\* The matching rows of the table as it is now whose key is strictly above
\* the key in the cursor.
RowsAbove(cursor) ==
  {r \in MatchingRows : KeyLess(CursorKey(cursor), r, SortColumn)}

\* The row the cursor was made from is gone.
CursorRowDeleted(cursor) ==
  /\ <<CursorKey(cursor).id, "delete">> \in touched
  /\ \A r \in db : r.id # CursorKey(cursor).id

\* The two calls of C26, forward in ascending order on a column of the
\* entity: {first: n}, and {first: n, after: cursor} with the end cursor of
\* that first page, while other clients insert, delete and update rows
\* between the two.
AscendingArgChoices ==
  {MakeArgs(f, None, a, None, FALSE) :
     f \in Counts \ {None},
     a \in {None} \cup (IF Len(pages) = 1 THEN {HeldEndCursor} ELSE {})}

AscendingPaginate == PaginateWith(AscendingArgChoices)

InitStale ==
  /\ InitMut
  /\ ColumnIdOf(cursorColumn) \in EntityColumns

NextStale ==
  \/ AscendingPaginate \/ GetMany \/ GetCountBefore \/ GetCountAfter
  \/ InsertRow \/ DeleteRow \/ UpdateRow

SpecStale == InitStale /\ [][NextStale]_vars

C26_WitnessInsert ==
  /\ ForwardAfterCall
  /\ pc = "countAfter"
  /\ \E k \in 1..Len(result) : <<result[k].id, "insert">> \in touched


\* ------------------------------------------------------------------ C27
\* C27: for a fixed table and caller filter, every call with valid
\* arguments (first or last, with or without a cursor of an earlier page,
\* reversed or not) returns the same totalCount, the number of rows that
\* match the caller's filter, also when the cursor is at or beyond the last
\* row and the window is empty.
C27_TotalCountIsConstant ==
  (Returned /\ (ForwardCall(args) \/ BackwardCall(args))) =>
    LastPage.conn.totalCount = Cardinality(MatchingRows)

\* The same for the calls whose window holds a row.
TotalCountOfNonEmptyWindow ==
  (Returned /\ (ForwardCall(args) \/ BackwardCall(args)) /\ Len(result) > 0) =>
    LastPage.conn.totalCount = Cardinality(MatchingRows)


\* ------------------------------------------------------------------ C28
\* The two bounds getCursorWhereClause takes from a composite cursor: the
\* first two pieces of the decoded value split on '|'.
CompositeBounds(cursor) ==
  LET parts == Split(decode(cursor), multiColumnDelimiter)
  IN [primary |-> Some(parts[1]),
      secondary |-> IF Len(parts) >= 2 THEN Some(parts[2]) ELSE None]

\* C28: sorting on a column other than id, the cursor of every returned
\* edge decodes and splits into the row's sort value as primary bound and
\* the row's id as secondary bound, whatever the sort value and the id are,
\* values that contain '|' included.
C28_CompositeCursorRoundTrip ==
  (Returned /\ SortColumn = "name") =>
    \A k \in 1..Len(LastPage.conn.edges) :
      LET e == LastPage.conn.edges[k]
      IN /\ CompositeBounds(e.cursor).primary = Some(e.node.name)
         /\ CompositeBounds(e.cursor).secondary = Some(e.node.id)

\* The same for the rows whose sort value holds no '|'.
CompositeRoundTripWithoutDelimiter ==
  (Returned /\ SortColumn = "name") =>
    \A k \in 1..Len(LastPage.conn.edges) :
      LET e == LastPage.conn.edges[k]
      IN (\A j \in 1..Len(e.node.name) : e.node.name[j] # multiColumnDelimiter)
           => /\ CompositeBounds(e.cursor).primary = Some(e.node.name)
              /\ CompositeBounds(e.cursor).secondary = Some(e.node.id)


\* ------------------------------------------- one builder for several calls
\* paginate.ts 48-93 called on the builder object the caller used before
\* (builders[1]): the clone is taken from the builder as the earlier calls
\* left it, and order, predicate and limit are applied to it once more.
PaginateOnUsedBuilder ==
  /\ pc = "idle"
  /\ \E a \in ForwardArgChoices :
       LET q0 == builders[1]
           b == BuildWindowQuery(q0, a, cursorColumn)
       IN /\ Len(b.query.wheres)
               <= Len(NewQuery(filter).wheres) + MaxLeftPredicates
          /\ args' = a
          /\ totalCountQuery' = q0
          /\ query' = b.query
          /\ builders' = [builders EXCEPT ![1] = b.query]
          /\ queriesRun' = 0
          /\ IF b.threw
             THEN /\ pc' = "idle"
                  /\ outcome' = "threw"
                  /\ pages' = <<>>
             ELSE /\ pc' = "getMany"
                  /\ outcome' = "pending"
                  /\ pages' = IF Continues(a) THEN pages ELSE <<>>
          /\ beforeQuery' = q0
          /\ afterQuery' = q0
          /\ result' = <<>>
          /\ countBefore' = 0
          /\ countAfter' = 0
  /\ UNCHANGED <<libVars, calls, db, cursorColumn, filter, touched>>

InitReuse ==
  /\ Init
  /\ ColumnIdOf(cursorColumn) \in EntityColumns

NextReuse ==
  PaginateOnUsedBuilder \/ GetMany \/ GetCountBefore \/ GetCountAfter

SpecReuse == InitReuse /\ [][NextReuse]_vars

\* ------------------------------------------------------------------ C29
\* The counts getCounts returns for arguments a on a fresh builder.
AloneCounts(a) ==
  LET q0 == NewQuery(filter)
      columnId == ColumnIdOf(cursorColumn)
      rows == getMany(BuildWindowQuery(q0, a, cursorColumn).query, db)
      res == IF TruthyNum(a.last) THEN Reverse(rows) ELSE rows
  IN [countBefore |-> getCount(BeforeQuery(res, q0, columnId, a), db),
      countAfter |-> getCount(AfterQuery(res, q0, columnId, a), db)]

\* The last call returned what a fresh builder returns.
SameAsFreshBuilder ==
  /\ LastPage.conn = Alone(args)
  /\ LastPage.countBefore = AloneCounts(args).countBefore
  /\ LastPage.countAfter = AloneCounts(args).countAfter

FirstTwoCallsSameAsFresh ==
  (Returned /\ Len(AddedWheres(totalCountQuery)) = 0) => SameAsFreshBuilder


\* ------------------------------------------------------------------ C30
\* leftJoinAndSelect(relationField, alias) was called.
Joined(relationField, alias) ==
  \E k \in 1..Len(joinBuilder.joinCalls) :
    /\ joinBuilder.joinCalls[k].relationField = relationField
    /\ joinBuilder.joinCalls[k].alias = alias

\* C30: after build() completed, every leaf that carries a relationField is
\* covered by a join on exactly that relationField under the alias of its
\* field, also when two leaves share the alias and name different
\* relationFields.
C30_EveryRelationFieldJoined ==
  joinBuilder.pc = "built" =>
    \A f \in LeavesOf(joinBuilder.filtersExpression) :
      f.relationField # "" => Joined(f.relationField, AliasOf(f.field))

\* The same for the trees in which no alias comes with two relationFields.
EveryRelationFieldJoinedWhenAliasesAgree ==
  (/\ joinBuilder.pc = "built"
   /\ \A f, g \in LeavesOf(joinBuilder.filtersExpression) :
        (f.relationField # "" /\ g.relationField # ""
         /\ AliasOf(f.field) = AliasOf(g.field))
          => f.relationField = g.relationField)
  => \A f \in LeavesOf(joinBuilder.filtersExpression) :
       f.relationField # "" => Joined(f.relationField, AliasOf(f.field))

====
